---- MODULE Spec2Model ----
(***************************************************************************)
(* A model of ORigaMi's two core subsystems: the dialect-aware SQL Builder *)
(* (internal/sqlbuilder/builder.go) and the model metadata engine          *)
(* (package reflect: ExtractFields, ExtractModelInfo and their helpers).   *)
(*                                                                         *)
(* Strings are sequences of one-character strings, so that the substring   *)
(* tests, splits and case conversions of the code are computed, not        *)
(* assumed.  Bound argument values are the atoms "v1", "v2", ...           *)
(***************************************************************************)
EXTENDS Integers, Sequences, FiniteSets, TLC

(***************************************************************************)
(* Strings                                                                 *)
(***************************************************************************)

LowerLetters ==
    <<"a", "b", "c", "d", "e", "f", "g", "h", "i", "j", "k", "l", "m",
      "n", "o", "p", "q", "r", "s", "t", "u", "v", "w", "x", "y", "z">>

UpperLetters ==
    <<"A", "B", "C", "D", "E", "F", "G", "H", "I", "J", "K", "L", "M",
      "N", "O", "P", "Q", "R", "S", "T", "U", "V", "W", "X", "Y", "Z">>

IsLower(c) == \E i \in 1..26 : LowerLetters[i] = c

IsUpper(c) == \E i \in 1..26 : UpperLetters[i] = c

ToUpperRune(c) ==
    IF IsLower(c) THEN UpperLetters[CHOOSE i \in 1..26 : LowerLetters[i] = c] ELSE c

ToLowerRune(c) ==
    IF IsUpper(c) THEN LowerLetters[CHOOSE i \in 1..26 : UpperLetters[i] = c] ELSE c

\* strings.ToUpper
ToUpper(s) == [i \in 1..Len(s) |-> ToUpperRune(s[i])]

\* strings.Contains
Contains(s, sub) ==
    \E i \in 0..(Len(s) - Len(sub)) : SubSeq(s, i + 1, i + Len(sub)) = sub

\* strings.HasPrefix
HasPrefix(s, p) == Len(s) >= Len(p) /\ SubSeq(s, 1, Len(p)) = p

\* strings.HasSuffix
HasSuffix(s, p) == Len(s) >= Len(p) /\ SubSeq(s, Len(s) - Len(p) + 1, Len(s)) = p

\* The position of the first occurrence of the character c in s, 0 if none.
IndexRune(s, c) ==
    IF \E i \in 1..Len(s) : s[i] = c
    THEN CHOOSE i \in 1..Len(s) : s[i] = c /\ \A j \in 1..(i - 1) : s[j] # c
    ELSE 0

\* strings.Split(s, sep) for a one-character separator
RECURSIVE Split(_, _)
Split(s, c) ==
    LET i == IndexRune(s, c)
    IN  IF i = 0 THEN <<s>>
        ELSE <<SubSeq(s, 1, i - 1)>> \o Split(SubSeq(s, i + 1, Len(s)), c)

\* strings.Join
RECURSIVE Join(_, _)
Join(parts, sep) ==
    IF parts = <<>> THEN <<>>
    ELSE IF Len(parts) = 1 THEN parts[1]
    ELSE parts[1] \o sep \o Join(Tail(parts), sep)

\* The concatenation of a sequence of sequences.
RECURSIVE Flatten(_)
Flatten(ss) == IF ss = <<>> THEN <<>> ELSE Head(ss) \o Flatten(Tail(ss))

\* fmt.Sprintf("%d", n) for n >= 0
DigitChars == <<"0", "1", "2", "3", "4", "5", "6", "7", "8", "9">>

RECURSIVE Itoa(_)
Itoa(n) ==
    IF n < 10 THEN <<DigitChars[n + 1]>>
    ELSE Itoa(n \div 10) \o <<DigitChars[(n % 10) + 1]>>

(***************************************************************************)
(* Dialect strategies                                                      *)
(***************************************************************************)

Dialects == {"postgres", "mysql", "sqlite"}

\* Dialect.Placeholder
Placeholder(d, pos) == IF d = "postgres" THEN <<"$">> \o Itoa(pos) ELSE <<"?">>

\* The backtick character (the lexer of TLA+ accepts none inside a string).
Backtick == "BACKTICK"

QuoteRune(d) == IF d = "mysql" THEN Backtick ELSE "\""

\* Dialect.Quote
Quote(d, identifier) ==
    LET q == <<QuoteRune(d)>>
    IN  IF Contains(identifier, <<".">>)
        THEN LET parts == Split(identifier, ".")
             IN  Join([i \in 1..Len(parts) |-> q \o parts[i] \o q], <<".">>)
        ELSE q \o identifier \o q

(***************************************************************************)
(* Builder state and the lock-protected primitive operations               *)
(***************************************************************************)

NoSections == [n \in {} |-> 0]

\* NewBuilder
NewBuilder(d) ==
    [dialect |-> d, buffer |-> <<>>, args |-> <<>>, argPosition |-> 0,
     sections |-> NoSections]

\* Reset as it would be if it left the position counter alone.
ResetKeepsPosition(st) ==
    [st EXCEPT !.buffer = <<>>, !.args = <<>>, !.sections = NoSections]

\* Reset as it would be if it kept the marked sections.
ResetKeepsSections(st) ==
    [st EXCEPT !.buffer = <<>>, !.args = <<>>, !.argPosition = 0]

\* Builder.Reset
Reset(st) ==
    [st EXCEPT !.buffer = <<>>, !.args = <<>>, !.argPosition = 0,
               !.sections = NoSections]

\* Builder.Append
AppendStr(st, s) == [st EXCEPT !.buffer = @ \o s]

\* Builder.AppendQuoted
AppendQuoted(st, identifier) ==
    [st EXCEPT !.buffer = @ \o Quote(st.dialect, identifier)]

\* Builder.AppendPlaceholder
AppendPlaceholder(st) ==
    [st EXCEPT !.argPosition = @ + 1,
               !.buffer = @ \o Placeholder(st.dialect, st.argPosition + 1)]

\* Builder.Arg
Arg(st, arg) == [st EXCEPT !.args = Append(@, arg)]

\* Builder.AppendWithArgs
AppendWithArgs(st, sql, args) ==
    [st EXCEPT !.buffer = @ \o sql, !.args = @ \o args]

\* The loop of AppendWithPlaceholders over parts[i..]: every part is written,
\* and every part but the last is followed by a fresh placeholder.
RECURSIVE WriteParts(_, _, _)
WriteParts(st, parts, i) ==
    IF i > Len(parts) THEN st
    ELSE LET w == AppendStr(st, parts[i])
         IN  IF i < Len(parts)
             THEN WriteParts(AppendPlaceholder(w), parts, i + 1)
             ELSE w

\* Builder.AppendWithPlaceholders
AppendWithPlaceholders(st, sql, args) ==
    LET w == WriteParts(st, Split(sql, "?"), 1)
    IN  [w EXCEPT !.args = @ \o args]

\* A MarkSection that records the start of the text.
MarkSectionAtStart(st, name) ==
    [st EXCEPT !.sections =
        [n \in DOMAIN st.sections \cup {name} |->
            IF n = name THEN 0 ELSE st.sections[n]]]

\* Builder.MarkSection
MarkSection(st, name) ==
    [st EXCEPT !.sections =
        [n \in DOMAIN st.sections \cup {name} |->
            IF n = name THEN Len(st.buffer) ELSE st.sections[n]]]

\* Builder.WithArgs
WithArgs(st, args) == [st EXCEPT !.args = @ \o args]

(***************************************************************************)
(* Calls.  A call of a Builder method is a record: k the method, s and t   *)
(* its string arguments, a its list argument (bound values, columns, rows  *)
(* or column/value pairs), o the other builder of a subquery, f its flag.  *)
(* A fluent method that is a chain of lock-protected calls is the list of  *)
(* those calls, in the order the code makes them.                          *)
(***************************************************************************)

NoCall == [k |-> "", s |-> <<>>, t |-> <<>>, a |-> <<>>, o |-> 0, f |-> FALSE]

K(k) == [NoCall EXCEPT !.k = k]

KS(k, s) == [NoCall EXCEPT !.k = k, !.s = s]

KSA(k, s, a) == [NoCall EXCEPT !.k = k, !.s = s, !.a = a]

\* items[1], sep, items[2], sep, ...: the `if i > 0 { b.Append(", ") }` loops
CommaSeparated(items) ==
    Flatten([i \in 1..Len(items) |->
        (IF i > 1 THEN <<KS("Append", <<",", " ">>)>> ELSE <<>>) \o items[i]])

\* Where as it would be without its check for an earlier WHERE.
WhereUnchecked(st, condition, args) ==
    <<KS("Append", <<" ", "W", "H", "E", "R", "E", " ">>),
      KSA("AppendWithPlaceholders", condition, args)>>

\* Builder.Where, from the state its locked check reads
Where(st, condition, args) ==
    LET hasWhere == Contains(ToUpper(st.buffer), <<" ", "W", "H", "E", "R", "E", " ">>)
    IN  IF hasWhere
        THEN <<KS("Append", <<" ", "A", "N", "D", " ">>), KSA("AppendWithPlaceholders", condition, args)>>
        ELSE <<KS("Append", <<" ", "W", "H", "E", "R", "E", " ">>), KSA("AppendWithPlaceholders", condition, args)>>

\* Builder.Select
Select(columns) ==
    <<K("Reset"), KS("Append", <<"S", "E", "L", "E", "C", "T", " ">>)>> \o
    ( IF Len(columns) = 0 THEN <<KS("Append", <<"*">>)>>
      ELSE CommaSeparated([i \in 1..Len(columns) |->
               IF Contains(columns[i], <<" ">>) \/ Contains(columns[i], <<"(">>)
               THEN <<KS("Append", columns[i])>>
               ELSE <<KS("AppendQuoted", columns[i])>>]) )

\* Builder.From
From(table) == <<KS("Append", <<" ", "F", "R", "O", "M", " ">>), KS("AppendQuoted", table)>>

\* Builder.Having
Having(condition, args) ==
    <<KS("Append", <<" ", "H", "A", "V", "I", "N", "G", " ">>), KSA("AppendWithPlaceholders", condition, args)>>

\* Builder.Insert
Insert(table) == <<K("Reset"), KS("Append", <<"I", "N", "S", "E", "R", "T", " ", "I", "N", "T", "O", " ">>), KS("AppendQuoted", table)>>

\* A value written into the text instead of bound.
BindValueInline(value) == <<KS("Append", <<value>>)>>

\* b.AppendPlaceholder().Arg(value)
BindValue(value) == <<K("AppendPlaceholder"), KSA("Arg", <<>>, <<value>>)>>

\* Builder.Values
Values(valuesList) ==
    <<KS("Append", <<" ", "V", "A", "L", "U", "E", "S", " ", "(">>)>> \o
    CommaSeparated([i \in 1..Len(valuesList) |-> BindValue(valuesList[i])]) \o
    <<KS("Append", <<")">>)>>

\* Builder.MultipleValues
MultipleValues(rows) ==
    <<KS("Append", <<" ", "V", "A", "L", "U", "E", "S", " ">>)>> \o
    CommaSeparated([i \in 1..Len(rows) |->
        <<KS("Append", <<"(">>)>> \o
        CommaSeparated([j \in 1..Len(rows[i]) |-> BindValue(rows[i][j])]) \o
        <<KS("Append", <<")">>)>>])

\* Builder.Update
Update(table) == <<K("Reset"), KS("Append", <<"U", "P", "D", "A", "T", "E", " ">>), KS("AppendQuoted", table)>>

\* `b.AppendQuoted(column).Append(" = ").AppendPlaceholder().Arg(value)`
Assignment(column, value) ==
    <<KS("AppendQuoted", column), KS("Append", <<" ", "=", " ">>)>> \o BindValue(value)

\* Builder.Set, from the text its b.SQL() reads
Set(st, column, value) ==
    ( IF ~Contains(ToUpper(st.buffer), <<" ", "S", "E", "T", " ">>)
      THEN <<KS("Append", <<" ", "S", "E", "T", " ">>)>>
      ELSE <<KS("Append", <<",", " ">>)>> ) \o Assignment(column, value)

\* The loop of SetMap over the pairs <<column, value>> from pairs[i] on, in
\* the order the map iteration yields them.
RECURSIVE SetMapLoop(_, _, _)
SetMapLoop(pairs, i, first) ==
    IF i > Len(pairs) THEN <<>>
    ELSE (IF ~first THEN <<KS("Append", <<",", " ">>)>> ELSE <<>>) \o
         Assignment(pairs[i][1], pairs[i][2]) \o SetMapLoop(pairs, i + 1, FALSE)

\* Builder.SetMap, from the text its b.SQL() reads
SetMap(st, pairs) ==
    ( IF ~Contains(ToUpper(st.buffer), <<" ", "S", "E", "T", " ">>)
      THEN <<KS("Append", <<" ", "S", "E", "T", " ">>)>> ELSE <<>> ) \o
    SetMapLoop(pairs, 1, ~Contains(st.buffer, <<"=">>))

\* Builder.Delete
Delete == <<K("Reset"), KS("Append", <<"D", "E", "L", "E", "T", "E">>)>>

\* Builder.DeleteFrom
DeleteFrom(table) ==
    <<K("Reset"), KS("Append", <<"D", "E", "L", "E", "T", "E", " ", "F", "R", "O", "M", " ">>), KS("AppendQuoted", table)>>

\* Builder.Union
Union(otherSQL, otherArgs) ==
    <<KS("Append", <<" ", "U", "N", "I", "O", "N", " ">>), KSA("AppendWithArgs", otherSQL, otherArgs)>>

\* Builder.Count
Count(column) ==
    <<K("Reset")>> \o
    ( IF column = <<>> \/ column = <<"*">>
      THEN <<KS("Append", <<"S", "E", "L", "E", "C", "T", " ", "C", "O", "U", "N", "T", "(", "*", ")">>)>>
      ELSE <<KS("Append", <<"S", "E", "L", "E", "C", "T", " ", "C", "O", "U", "N", "T", "(">>), KS("AppendQuoted", column),
             KS("Append", <<")">>)>> )

\* Builder.CreateTable
CreateTable(table, ifNotExists) ==
    <<K("Reset"), KS("Append", <<"C", "R", "E", "A", "T", "E", " ", "T", "A", "B", "L", "E", " ">>)>> \o
    (IF ifNotExists THEN <<KS("Append", <<"I", "F", " ", "N", "O", "T", " ", "E", "X", "I", "S", "T", "S", " ">>)>> ELSE <<>>) \o
    <<KS("AppendQuoted", table)>>

\* Builder.AlterTable
AlterTable(table) ==
    <<K("Reset"), KS("Append", <<"A", "L", "T", "E", "R", " ", "T", "A", "B", "L", "E", " ">>), KS("AppendQuoted", table)>>

\* Builder.CreateIndex
CreateIndex(name, table, unique) ==
    <<K("Reset"), KS("Append", <<"C", "R", "E", "A", "T", "E", " ">>)>> \o
    (IF unique THEN <<KS("Append", <<"U", "N", "I", "Q", "U", "E", " ">>)>> ELSE <<>>) \o
    <<KS("Append", <<"I", "N", "D", "E", "X", " ">>), KS("AppendQuoted", name), KS("Append", <<" ", "O", "N", " ">>),
      KS("AppendQuoted", table)>>

\* Builder.DropTable
DropTable(table, ifExists) ==
    <<K("Reset"), KS("Append", <<"D", "R", "O", "P", " ", "T", "A", "B", "L", "E", " ">>)>> \o
    (IF ifExists THEN <<KS("Append", <<"I", "F", " ", "E", "X", "I", "S", "T", "S", " ">>)>> ELSE <<>>) \o
    <<KS("AppendQuoted", table)>>

\* Builder.DropIndex
DropIndex(name, ifExists) ==
    <<K("Reset"), KS("Append", <<"D", "R", "O", "P", " ", "I", "N", "D", "E", "X", " ">>)>> \o
    (IF ifExists THEN <<KS("Append", <<"I", "F", " ", "E", "X", "I", "S", "T", "S", " ">>)>> ELSE <<>>) \o
    <<KS("AppendQuoted", name)>>

\* A splice that leaves the subquery's arguments behind.
SpliceWithoutArgs(open, subquery, after) ==
    <<KS("Append", open), [K("SubSQL") EXCEPT !.o = subquery], KS("Append", <<")">>)>>
    \o after

\* `b.Append(open).Append(subquery.SQL()).Append(")")`, then the subquery's
\* arguments: the body shared by Subquery, Exists and NotExists.  The text of
\* the subquery is read (under its own lock) after the opening is written.
Splice(open, subquery, after) ==
    <<KS("Append", open), [K("SubSQL") EXCEPT !.o = subquery], KS("Append", <<")">>)>>
    \o after \o <<[K("SubArgs") EXCEPT !.o = subquery]>>

\* Builder.Subquery
Subquery(subquery, alias) ==
    Splice(<<"(">>, subquery,
           IF alias # <<>> THEN <<KS("Append", <<" ", "A", "S", " ">>), KS("AppendQuoted", alias)>>
           ELSE <<>>)

\* Builder.Exists
Exists(subquery) == Splice(<<"E", "X", "I", "S", "T", "S", " ", "(">>, subquery, <<>>)

\* Builder.NotExists
NotExists(subquery) == Splice(<<"N", "O", "T", " ", "E", "X", "I", "S", "T", "S", " ", "(">>, subquery, <<>>)

\* strings.Fields: the words of s, split around runs of spaces.
RECURSIVE StringFields(_)
StringFields(s) ==
    IF s = <<>> THEN <<>>
    ELSE IF s[1] = " " THEN StringFields(Tail(s))
    ELSE LET i == IndexRune(s, " ")
         IN  IF i = 0 THEN <<s>>
             ELSE <<SubSeq(s, 1, i - 1)>> \o StringFields(SubSeq(s, i + 1, Len(s)))

\* ReplaceSection as it would be if it took the offset of an unmarked name
\* for 0, the value the map lookup gives.
ReplaceSectionUnchecked(st, name, content) ==
    LET pos == IF name \in DOMAIN st.sections THEN st.sections[name] ELSE 0
    IN  [st |-> [st EXCEPT !.buffer = SubSeq(@, 1, pos) \o content
                                      \o SubSeq(@, pos + 1, Len(@))],
         err |-> FALSE]

\* Builder.ReplaceSection: the builder after the call, and whether the call
\* returns an error.
ReplaceSection(st, name, content) ==
    IF name \notin DOMAIN st.sections
    THEN [st |-> st, err |-> TRUE]
    ELSE LET pos == st.sections[name]
         IN  [st |-> [st EXCEPT !.buffer = SubSeq(@, 1, pos) \o content
                                           \o SubSeq(@, pos + 1, Len(@))],
              err |-> FALSE]

\* `b.AppendQuoted(parts[0])`: an index out of range when parts is empty.
QuotedFirst(parts) ==
    IF parts = <<>> THEN <<K("panic")>> ELSE <<KS("AppendQuoted", parts[1])>>

\* Builder.OrderBy
OrderBy(columns) ==
    IF Len(columns) = 0 THEN <<>>
    ELSE <<KS("Append", <<" ", "O", "R", "D", "E", "R", " ", "B", "Y", " ">>)>> \o
         CommaSeparated([i \in 1..Len(columns) |->
             LET col == columns[i]
             IN  IF HasSuffix(col, <<" ", "D", "E", "S", "C">>) \/ HasSuffix(col, <<" ", "d", "e", "s", "c">>)
                 THEN QuotedFirst(StringFields(col)) \o <<KS("Append", <<" ", "D", "E", "S", "C">>)>>
                 ELSE IF HasSuffix(col, <<" ", "A", "S", "C">>) \/ HasSuffix(col, <<" ", "a", "s", "c">>)
                 THEN QuotedFirst(StringFields(col)) \o <<KS("Append", <<" ", "A", "S", "C">>)>>
                 ELSE <<KS("AppendQuoted", col)>>])

\* Builder.IndexColumns
IndexColumns(columns) ==
    <<KS("Append", <<" ", "(">>)>> \o
    CommaSeparated([i \in 1..Len(columns) |->
        LET parts == StringFields(columns[i])
        IN  QuotedFirst(parts) \o
            (IF Len(parts) > 1 THEN <<KS("Append", <<" ">>), KS("Append", parts[2])>>
             ELSE <<>>)]) \o
    <<KS("Append", <<")">>)>>

\* LimitOffset as it would be if every dialect wrote it as PostgreSQL does.
StandardLimitOffset(d, limit, offset) ==
    (IF limit >= 0 THEN <<" ", "L", "I", "M", "I", "T", " ">> \o Itoa(limit) ELSE <<>>) \o
    (IF offset >= 0 THEN <<" ", "O", "F", "F", "S", "E", "T", " ">> \o Itoa(offset) ELSE <<>>)

\* Dialect.LimitOffset
DialectLimitOffset(d, limit, offset) ==
    IF d = "mysql"
    THEN IF limit >= 0
         THEN IF offset >= 0
              THEN <<" ", "L", "I", "M", "I", "T", " ">> \o Itoa(offset) \o <<",", " ">> \o Itoa(limit)
              ELSE <<" ", "L", "I", "M", "I", "T", " ">> \o Itoa(limit)
         ELSE IF offset >= 0
         THEN <<" ", "L", "I", "M", "I", "T", " ">> \o Itoa(offset) \o <<",", " ", "1", "8", "4", "4", "6", "7", "4", "4", "0", "7", "3", "7", "0", "9", "5", "5", "1", "6", "1", "5">>
         ELSE <<>>
    ELSE (IF limit >= 0 THEN <<" ", "L", "I", "M", "I", "T", " ">> \o Itoa(limit) ELSE <<>>) \o
         (IF offset >= 0 THEN <<" ", "O", "F", "F", "S", "E", "T", " ">> \o Itoa(offset) ELSE <<>>)

\* Builder.Limit
Limit(d, limit) == <<KS("Append", DialectLimitOffset(d, limit, 0 - 1))>>

\* Builder.Offset
Offset(d, offset) == <<KS("Append", DialectLimitOffset(d, 0 - 1, offset))>>

\* Builder.LimitOffset
LimitOffset(d, limit, offset) == <<KS("Append", DialectLimitOffset(d, limit, offset))>>

\* InsertReturning as it would be if PostgreSQL had no RETURNING either.
InsertReturningNothing(d, query, pkColumn) == <<>>

\* Dialect.InsertReturning
InsertReturning(d, query, pkColumn) ==
    IF d = "postgres" THEN <<" ", "R", "E", "T", "U", "R", "N", "I", "N", "G", " ">> \o Quote(d, pkColumn) ELSE <<>>

\* Dialect.SupportUpsert
SupportUpsert(d) == TRUE

\* A Returning that asks no dialect.
ReturningAlways(st, column) ==
    <<KS("Append", <<" ", "R", "E", "T", "U", "R", "N", "I", "N", "G", " ">>), KS("AppendQuoted", column)>>

\* Builder.Returning, from the text its b.SQL() reads
Returning(st, column) ==
    IF HasPrefix(st.buffer, <<"I", "N", "S", "E", "R", "T">>)
    THEN <<KS("Append", InsertReturning(st.dialect, st.buffer, column))>>
    ELSE IF SupportUpsert(st.dialect)
    THEN <<KS("Append", <<" ", "R", "E", "T", "U", "R", "N", "I", "N", "G", " ">>), KS("AppendQuoted", column)>>
    ELSE <<>>

\* The calls a fluent method makes, from the state st its first locked read
\* (if it has one) sees.
Body(st, c) ==
    CASE c.k = "Where" -> Where(st, c.s, c.a)
      [] c.k = "Select" -> Select(c.a)
      [] c.k = "From" -> From(c.s)
      [] c.k = "Having" -> Having(c.s, c.a)
      [] c.k = "Insert" -> Insert(c.s)
      [] c.k = "Values" -> Values(c.a)
      [] c.k = "MultipleValues" -> MultipleValues(c.a)
      [] c.k = "Update" -> Update(c.s)
      [] c.k = "Set" -> Set(st, c.s, c.a[1])
      [] c.k = "SetMap" -> SetMap(st, c.a)
      [] c.k = "Delete" -> Delete
      [] c.k = "DeleteFrom" -> DeleteFrom(c.s)
      [] c.k = "Union" -> Union(c.s, c.a)
      [] c.k = "Count" -> Count(c.s)
      [] c.k = "CreateTable" -> CreateTable(c.s, c.f)
      [] c.k = "AlterTable" -> AlterTable(c.s)
      [] c.k = "CreateIndex" -> CreateIndex(c.s, c.t, c.f)
      [] c.k = "DropTable" -> DropTable(c.s, c.f)
      [] c.k = "DropIndex" -> DropIndex(c.s, c.f)
      [] c.k = "Subquery" -> Subquery(c.o, c.t)
      [] c.k = "Exists" -> Exists(c.o)
      [] c.k = "NotExists" -> NotExists(c.o)
      [] c.k = "OrderBy" -> OrderBy(c.a)
      [] c.k = "IndexColumns" -> IndexColumns(c.a)
      [] c.k = "Limit" -> Limit(st.dialect, c.a[1])
      [] c.k = "Offset" -> Offset(st.dialect, c.a[1])
      [] c.k = "LimitOffset" -> LimitOffset(st.dialect, c.a[1], c.a[2])
      [] c.k = "Returning" -> Returning(st, c.s)

\* The methods whose whole body runs under the builder's lock.
Primitives ==
    {"Reset", "Append", "AppendQuoted", "AppendPlaceholder", "Arg",
     "AppendWithArgs", "AppendWithPlaceholders", "MarkSection", "WithArgs",
     "ReplaceSection"}

Primitive(st, c) ==
    CASE c.k = "Reset" -> Reset(st)
      [] c.k = "Append" -> AppendStr(st, c.s)
      [] c.k = "AppendQuoted" -> AppendQuoted(st, c.s)
      [] c.k = "AppendPlaceholder" -> AppendPlaceholder(st)
      [] c.k = "Arg" -> Arg(st, c.a[1])
      [] c.k = "AppendWithArgs" -> AppendWithArgs(st, c.s, c.a)
      [] c.k = "AppendWithPlaceholders" -> AppendWithPlaceholders(st, c.s, c.a)
      [] c.k = "MarkSection" -> MarkSection(st, c.s)
      [] c.k = "WithArgs" -> WithArgs(st, c.a)
      [] c.k = "ReplaceSection" -> ReplaceSection(st, c.s, c.t).st

\* One lock-protected step of builder b for the call c: the builders after
\* it, and the calls (pre) it puts before the rest of what the thread has to do.
Exec(bs, b, c) ==
    IF c.k \in Primitives
    THEN [bs |-> [bs EXCEPT ![b] = Primitive(bs[b], c)], pre |-> <<>>]
    ELSE IF c.k = "SubSQL"
    THEN [bs |-> bs, pre |-> <<KS("Append", bs[c.o].buffer)>>]
    ELSE IF c.k = "SubArgs"
    THEN [bs |-> [bs EXCEPT ![b].args = @ \o bs[c.o].args], pre |-> <<>>]
    ELSE [bs |-> bs, pre |-> Body(bs[b], c)]

\* The calls of todo run by one thread, nothing interleaved, until none is
\* left or the thread panics.
RECURSIVE Run(_, _, _)
Run(bs, b, todo) ==
    IF todo = <<>> \/ Head(todo).k = "panic" THEN bs
    ELSE LET r == Exec(bs, b, Head(todo))
         IN  Run(r.bs, b, r.pre \o Tail(todo))

\* Whether the thread that runs the calls of todo panics.
RECURSIVE Panics(_, _, _)
Panics(bs, b, todo) ==
    IF todo = <<>> THEN FALSE
    ELSE IF Head(todo).k = "panic" THEN TRUE
    ELSE LET r == Exec(bs, b, Head(todo))
         IN  Panics(r.bs, b, r.pre \o Tail(todo))

\* How the call c on builder b ends: "panic", "error" (an error value is
\* returned) or "ok" (the builder is returned; ReplaceSection returns nil).
Outcome(bs, b, c) ==
    IF Panics(bs, b, <<c>>) THEN "panic"
    ELSE IF c.k = "ReplaceSection" /\ ReplaceSection(bs[b], c.s, c.t).err THEN "error"
    ELSE "ok"

(***************************************************************************)
(* Metadata engine: tags and names                                         *)
(***************************************************************************)

Max(S) == CHOOSE x \in S : \A y \in S : y <= x

Min(S) == CHOOSE x \in S : \A y \in S : x <= y

\* strings.TrimSpace (the space is the only white space of the model's tags)
TrimSpace(s) ==
    LET keep == {i \in 1..Len(s) : s[i] # " "}
    IN  IF keep = {} THEN <<>> ELSE SubSeq(s, Min(keep), Max(keep))

\* strings.SplitN(s, sep, 2) for a one-character separator
SplitN(s, c) ==
    LET i == IndexRune(s, c)
    IN  IF i = 0 THEN <<s>> ELSE <<SubSeq(s, 1, i - 1), SubSeq(s, i + 1, Len(s))>>

\* make(map[string]string)
NoSettings == [key \in {} |-> <<>>]

\* ParseTagSettings in which an earlier part of a key is kept and a later one
\* of the same key is dropped.
ParseTagSettingsFirstWins(tag) ==
    LET parts == Split(tag, ";")
        KeyValue(k) == SplitN(TrimSpace(parts[k]), ":")
        Key(k) == TrimSpace(KeyValue(k)[1])
        Value(k) == IF Len(KeyValue(k)) > 1 THEN TrimSpace(KeyValue(k)[2]) ELSE <<>>
        kept == {k \in 1..Len(parts) : TrimSpace(parts[k]) # <<>> /\ Key(k) # <<>>}
    IN  [key \in {Key(k) : k \in kept} |-> Value(Min({k \in kept : Key(k) = key}))]

\* ParseTagSettings: the parts between `;`, each cut at its first `:`; a part
\* without a key is skipped and a later part overwrites an earlier one of the
\* same key.
ParseTagSettings(tag) ==
    LET parts == Split(tag, ";")
        KeyValue(k) == SplitN(TrimSpace(parts[k]), ":")
        Key(k) == TrimSpace(KeyValue(k)[1])
        Value(k) == IF Len(KeyValue(k)) > 1 THEN TrimSpace(KeyValue(k)[2]) ELSE <<>>
        kept == {k \in 1..Len(parts) : TrimSpace(parts[k]) # <<>> /\ Key(k) # <<>>}
    IN  [key \in {Key(k) : k \in kept} |-> Value(Max({k \in kept : Key(k) = key}))]

\* HasTagOption: some part between `;`, trimmed, is the option itself.
HasTagOption(tag, option) ==
    LET parts == Split(tag, ";")
    IN  \E k \in 1..Len(parts) : TrimSpace(parts[k]) = option

TagKey == <<"o", "r", "i", "g", "a", "m", "i">>

\* The struct tag `origami:"value"` as Go source writes it.
StructTag(value) == TagKey \o <<":", "\"">> \o value \o <<"\"">>

\* reflect.StructTag.Lookup(TagKey), for a tag of at most one key.
TagLookup(tag) ==
    LET open == TagKey \o <<":", "\"">>
    IN  IF HasPrefix(tag, open) /\ Len(tag) > Len(open) /\ HasSuffix(tag, <<"\"">>)
        THEN [ok |-> TRUE, value |-> SubSeq(tag, Len(open) + 1, Len(tag) - 1)]
        ELSE [ok |-> FALSE, value |-> <<>>]

IsDigit(c) == \E i \in 1..10 : DigitChars[i] = c

RECURSIVE Atoi(_)
Atoi(s) ==
    IF s = <<>> THEN 0
    ELSE 10 * Atoi(SubSeq(s, 1, Len(s) - 1))
         + (CHOOSE i \in 1..10 : DigitChars[i] = s[Len(s)]) - 1

\* fmt.Sscanf(s, "%d", &n): the number that s starts with; n keeps the value
\* old when s starts with none.
Sscanf(s, old) ==
    LET signed == s # <<>> /\ s[1] \in {"-", "+"}
        body == IF signed THEN Tail(s) ELSE s
        n == Cardinality({k \in 1..Len(body) : \A j \in 1..k : IsDigit(body[j])})
    IN  IF n = 0 THEN old
        ELSE IF signed /\ s[1] = "-" THEN 0 - Atoi(SubSeq(body, 1, n))
        ELSE Atoi(SubSeq(body, 1, n))

\* ToSnakeCase, from the character at index i (counted from 0) on.
RECURSIVE SnakeLoop(_, _, _, _)
SnakeLoop(s, i, result, prevLower) ==
    IF i >= Len(s) THEN result
    ELSE LET r == s[i + 1]
             isLower == IsLower(r)
             afterLower == IF i > 0 /\ ~isLower /\ prevLower
                           THEN result \o <<"_">> ELSE result
             afterRun == IF /\ i > 0 /\ isLower /\ i > 1 /\ ~prevLower
                            /\ IsUpper(s[i]) /\ i > 2 /\ IsUpper(s[i - 1])
                         THEN SubSeq(afterLower, 1, Len(afterLower) - 1) \o <<"_">>
                              \o <<ToLowerRune(s[i])>>
                         ELSE afterLower
         IN  SnakeLoop(s, i + 1, afterRun \o <<ToLowerRune(r)>>, isLower)

\* ToSnakeCase
ToSnakeCase(s) == SnakeLoop(s, 0, <<>>, FALSE)

\* ToCamelCase without the removal of underscores: the first character in
\* lower case, the rest as it is.
ToCamelCaseFirstOnly(s) ==
    IF s = <<>> THEN <<>> ELSE <<ToLowerRune(s[1])>> \o Tail(s)

RECURSIVE CamelLoop(_, _, _, _)
CamelLoop(s, i, result, capNext) ==
    IF i >= Len(s) THEN result
    ELSE LET r == s[i + 1]
         IN  IF r = "_" THEN CamelLoop(s, i + 1, result, TRUE)
             ELSE IF i = 0
             THEN CamelLoop(s, i + 1, result \o <<ToLowerRune(r)>>, capNext)
             ELSE IF capNext
             THEN CamelLoop(s, i + 1, result \o <<ToUpperRune(r)>>, FALSE)
             ELSE CamelLoop(s, i + 1, result \o <<r>>, capNext)

\* ToCamelCase
ToCamelCase(s) == CamelLoop(s, 0, <<>>, FALSE)

RECURSIVE PascalLoop(_, _, _, _)
PascalLoop(s, i, result, capNext) ==
    IF i >= Len(s) THEN result
    ELSE LET r == s[i + 1]
         IN  IF r = "_" THEN PascalLoop(s, i + 1, result, TRUE)
             ELSE IF capNext
             THEN PascalLoop(s, i + 1, result \o <<ToUpperRune(r)>>, FALSE)
             ELSE PascalLoop(s, i + 1, result \o <<r>>, capNext)

\* ToPascalCase
ToPascalCase(s) == PascalLoop(s, 0, <<>>, TRUE)

\* strings.ReplaceAll(s, old, new) for a one-character old
ReplaceAll(s, old, new) ==
    Flatten([i \in 1..Len(s) |-> IF s[i] = old THEN new ELSE <<s[i]>>])

\* EscapeLike that escapes the backslashes last, those it has written for `%`
\* and `_` included.
EscapeLikeBackslashLast(d, value) ==
    ReplaceAll(ReplaceAll(ReplaceAll(value, "%", <<"\\", "%">>), "_", <<"\\", "_">>), "\\", <<"\\", "\\">>)

\* PostgresDialect.EscapeLike, MySQLDialect.EscapeLike and
\* SQLiteDialect.EscapeLike: the same three replacements in each.
EscapeLike(d, value) ==
    ReplaceAll(ReplaceAll(ReplaceAll(value, "\\", <<"\\", "\\">>), "%", <<"\\", "%">>), "_", <<"\\", "_">>)

(***************************************************************************)
(* Metadata engine: types                                                  *)
(*                                                                         *)
(* A type is a sequence of tokens: <<"Inner">> is the struct Inner,        *)
(* <<"*", "Inner">> a pointer to it, <<"int">> a type that is no struct.   *)
(***************************************************************************)

\* reflect.StructField
StructField(name, type, i, anonymous, pkgPath, tag) ==
    [Name |-> name, Type |-> type, Index |-> <<i>>, Anonymous |-> anonymous,
     PkgPath |-> pkgPath, Tag |-> tag]

StructNames ==
    {"Inner", "OuterA", "OuterB", "Plain", "Clash", "Record", "Indexed", "Left", "Right",
     "Both", "Referrer"}

\* The struct types of the model:
\*   type Inner struct {
\*       ID   int    `origami:"primary_key;auto_increment"`
\*       Name string `origami:"column:full_name;primary_key;index"`
\*   }
\*   type OuterA struct { Inner; Name string `origami:"not_null;size:64"` }
\*   type OuterB struct { Name string `origami:"not_null;size:64"`; Inner }
\*   type Score int
\*   type Plain struct {
\*       origami struct{} `origami:"table:people"`
\*       ID      int      `origami:"primaryKey;autoIncrement"`
\*       Score
\*   }
\*   type Clash struct {
\*       Name  string
\*       Alias string `origami:"column:name"`
\*   }
\*   type Record struct {
\*       Name   string `origami:"not_null"`
\*       Secret string `origami:"writeonly;not_null"`
\*       Total  int    `origami:"readonly"`
\*       Temp   bool   `origami:"-"`
\*   }
\*   type Indexed struct {
\*       Code  string `origami:"index"`
\*       Email string `origami:"unique"`
\*       City  string `origami:"index:by_place"`
\*       Zip   string `origami:"index:by_place;uniqueIndex:by_zip"`
\*   }
\*   type Left struct { X int `origami:"column:lx"` }
\*   type Right struct { X int `origami:"column:rx"`; Y int }
\*   type Both struct { Left; Right }
\*   type Referrer struct {
\*       Owner int `origami:"references:User.ID;onDelete:CASCADE;onUpdate:RESTRICT"`
\*       Bad   int `origami:"references:User;onDelete:CASCADE"`
\*       Deep  int `origami:"references:a.b.c;onUpdate:CASCADE"`
\*   }
StructDecl(n) ==
    CASE n = "Inner" ->
           [Name |-> <<"I", "n", "n", "e", "r">>,
            Fields |-> <<
              StructField(<<"I", "D">>, <<"int">>, 0, FALSE, <<>>,
                          StructTag(<<"p", "r", "i", "m", "a", "r", "y", "_", "k", "e", "y", ";", "a", "u", "t", "o", "_", "i", "n", "c", "r", "e", "m", "e", "n", "t">>)),
              StructField(<<"N", "a", "m", "e">>, <<"string">>, 1, FALSE, <<>>,
                          StructTag(<<"c", "o", "l", "u", "m", "n", ":", "f", "u", "l", "l", "_", "n", "a", "m", "e", ";", "p", "r", "i", "m", "a", "r", "y", "_", "k", "e", "y", ";", "i", "n", "d", "e", "x">>)) >>]
      [] n = "OuterA" ->
           [Name |-> <<"O", "u", "t", "e", "r", "A">>,
            Fields |-> <<
              StructField(<<"I", "n", "n", "e", "r">>, <<"Inner">>, 0, TRUE, <<>>, <<>>),
              StructField(<<"N", "a", "m", "e">>, <<"string">>, 1, FALSE, <<>>,
                          StructTag(<<"n", "o", "t", "_", "n", "u", "l", "l", ";", "s", "i", "z", "e", ":", "6", "4">>)) >>]
      [] n = "OuterB" ->
           [Name |-> <<"O", "u", "t", "e", "r", "B">>,
            Fields |-> <<
              StructField(<<"N", "a", "m", "e">>, <<"string">>, 0, FALSE, <<>>,
                          StructTag(<<"n", "o", "t", "_", "n", "u", "l", "l", ";", "s", "i", "z", "e", ":", "6", "4">>)),
              StructField(<<"I", "n", "n", "e", "r">>, <<"Inner">>, 1, TRUE, <<>>, <<>>) >>]
      [] n = "Plain" ->
           [Name |-> <<"P", "l", "a", "i", "n">>,
            Fields |-> <<
              StructField(<<"o", "r", "i", "g", "a", "m", "i">>, <<"struct{}">>, 0, FALSE, <<"m", "a", "i", "n">>,
                          StructTag(<<"t", "a", "b", "l", "e", ":", "p", "e", "o", "p", "l", "e">>)),
              StructField(<<"I", "D">>, <<"int">>, 1, FALSE, <<>>,
                          StructTag(<<"p", "r", "i", "m", "a", "r", "y", "K", "e", "y", ";", "a", "u", "t", "o", "I", "n", "c", "r", "e", "m", "e", "n", "t">>)),
              StructField(<<"S", "c", "o", "r", "e">>, <<"Score">>, 2, TRUE, <<>>, <<>>) >>]
      [] n = "Clash" ->
           [Name |-> <<"C", "l", "a", "s", "h">>,
            Fields |-> <<
              StructField(<<"N", "a", "m", "e">>, <<"string">>, 0, FALSE, <<>>, <<>>),
              StructField(<<"A", "l", "i", "a", "s">>, <<"string">>, 1, FALSE, <<>>,
                          StructTag(<<"c", "o", "l", "u", "m", "n", ":", "n", "a", "m", "e">>)) >>]
      [] n = "Record" ->
           [Name |-> <<"R", "e", "c", "o", "r", "d">>,
            Fields |-> <<
              StructField(<<"N", "a", "m", "e">>, <<"string">>, 0, FALSE, <<>>, StructTag(<<"n", "o", "t", "_", "n", "u", "l", "l">>)),
              StructField(<<"S", "e", "c", "r", "e", "t">>, <<"string">>, 1, FALSE, <<>>,
                          StructTag(<<"w", "r", "i", "t", "e", "o", "n", "l", "y", ";", "n", "o", "t", "_", "n", "u", "l", "l">>)),
              StructField(<<"T", "o", "t", "a", "l">>, <<"int">>, 2, FALSE, <<>>, StructTag(<<"r", "e", "a", "d", "o", "n", "l", "y">>)),
              StructField(<<"T", "e", "m", "p">>, <<"bool">>, 3, FALSE, <<>>, StructTag(<<"-">>)) >>]
      [] n = "Indexed" ->
           [Name |-> <<"I", "n", "d", "e", "x", "e", "d">>,
            Fields |-> <<
              StructField(<<"C", "o", "d", "e">>, <<"string">>, 0, FALSE, <<>>, StructTag(<<"i", "n", "d", "e", "x">>)),
              StructField(<<"E", "m", "a", "i", "l">>, <<"string">>, 1, FALSE, <<>>, StructTag(<<"u", "n", "i", "q", "u", "e">>)),
              StructField(<<"C", "i", "t", "y">>, <<"string">>, 2, FALSE, <<>>, StructTag(<<"i", "n", "d", "e", "x", ":", "b", "y", "_", "p", "l", "a", "c", "e">>)),
              StructField(<<"Z", "i", "p">>, <<"string">>, 3, FALSE, <<>>,
                          StructTag(<<"i", "n", "d", "e", "x", ":", "b", "y", "_", "p", "l", "a", "c", "e", ";", "u", "n", "i", "q", "u", "e", "I", "n", "d", "e", "x", ":", "b", "y", "_", "z", "i", "p">>)) >>]
      [] n = "Left" ->
           [Name |-> <<"L", "e", "f", "t">>,
            Fields |-> <<
              StructField(<<"X">>, <<"int">>, 0, FALSE, <<>>, StructTag(<<"c", "o", "l", "u", "m", "n", ":", "l", "x">>)) >>]
      [] n = "Right" ->
           [Name |-> <<"R", "i", "g", "h", "t">>,
            Fields |-> <<
              StructField(<<"X">>, <<"int">>, 0, FALSE, <<>>, StructTag(<<"c", "o", "l", "u", "m", "n", ":", "r", "x">>)),
              StructField(<<"Y">>, <<"int">>, 1, FALSE, <<>>, <<>>) >>]
      [] n = "Both" ->
           [Name |-> <<"B", "o", "t", "h">>,
            Fields |-> <<
              StructField(<<"L", "e", "f", "t">>, <<"Left">>, 0, TRUE, <<>>, <<>>),
              StructField(<<"R", "i", "g", "h", "t">>, <<"Right">>, 1, TRUE, <<>>, <<>>) >>]
      [] n = "Referrer" ->
           [Name |-> <<"R", "e", "f", "e", "r", "r", "e", "r">>,
            Fields |-> <<
              StructField(<<"O", "w", "n", "e", "r">>, <<"int">>, 0, FALSE, <<>>,
                          StructTag(<<"r", "e", "f", "e", "r", "e", "n", "c", "e", "s", ":", "U", "s", "e", "r", ".", "I", "D", ";", "o", "n", "D", "e", "l", "e", "t", "e", ":", "C", "A", "S", "C", "A", "D", "E", ";", "o", "n", "U", "p", "d", "a", "t", "e", ":", "R", "E", "S", "T", "R", "I", "C", "T">>)),
              StructField(<<"B", "a", "d">>, <<"int">>, 1, FALSE, <<>>,
                          StructTag(<<"r", "e", "f", "e", "r", "e", "n", "c", "e", "s", ":", "U", "s", "e", "r", ";", "o", "n", "D", "e", "l", "e", "t", "e", ":", "C", "A", "S", "C", "A", "D", "E">>)),
              StructField(<<"D", "e", "e", "p">>, <<"int">>, 2, FALSE, <<>>,
                          StructTag(<<"r", "e", "f", "e", "r", "e", "n", "c", "e", "s", ":", "a", ".", "b", ".", "c", ";", "o", "n", "U", "p", "d", "a", "t", "e", ":", "C", "A", "S", "C", "A", "D", "E">>)) >>]

\* An IndirectType that removes one level of pointer.
IndirectOnce(t) == IF Head(t) = "*" THEN Tail(t) ELSE t

\* IndirectType
RECURSIVE IndirectType(_)
IndirectType(t) == IF Head(t) = "*" THEN IndirectType(Tail(t)) ELSE t

\* reflect.Type.Kind
Kind(t) ==
    IF Head(t) = "*" THEN "ptr" ELSE IF Head(t) \in StructNames THEN "struct" ELSE "other"

\* reflect.Type.NumField
NumField(n) == Len(StructDecl(n).Fields)

\* reflect.Type.Field(i), i counted from 0
Field(n, i) == StructDecl(n).Fields[i + 1]

\* reflect.Type.FieldByName: a field of the struct itself, or else the one
\* field of that name promoted from its embedded structs; <<>> if none.
RECURSIVE FieldByName(_, _)
FieldByName(n, name) ==
    LET fields == StructDecl(n).Fields
        own == {k \in 1..Len(fields) : fields[k].Name = name}
        promoted == {k \in 1..Len(fields) :
                        /\ fields[k].Anonymous
                        /\ Kind(IndirectType(fields[k].Type)) = "struct"
                        /\ FieldByName(Head(IndirectType(fields[k].Type)), name) # <<>>}
    IN  IF own # {} THEN <<fields[Min(own)]>>
        ELSE IF Cardinality(promoted) = 1
        THEN FieldByName(Head(IndirectType(fields[CHOOSE k \in promoted : TRUE].Type)), name)
        ELSE <<>>

\* The values ExtractModelInfo is called with.
Models == {<<"Inner">>, <<"OuterA">>, <<"OuterB">>, <<"Plain">>, <<"*", "Plain">>, <<"int">>}

\* Values of types with zero, one and two levels of pointer, over a struct
\* and over a type that is no struct, and a struct of which two members
\* have one column name.
PointerModels ==
    {<<"Plain">>, <<"*", "Plain">>, <<"*", "*", "Plain">>, <<"int">>, <<"*", "int">>,
     <<"Clash">>}

(***************************************************************************)
(* Metadata engine: field descriptors and the entity descriptor            *)
(***************************************************************************)

\* FieldInfo as ExtractFields first fills it in.  Referenced is <<>> for nil
\* and a ReferenceInfo in a sequence of length one otherwise.
NewFieldInfo(sf) ==
    [Name |-> sf.Name, DBName |-> ToSnakeCase(sf.Name), Type |-> sf.Type,
     Index |-> sf.Index, IsAnonymous |-> sf.Anonymous,
     IsPrimaryKey |-> FALSE, IsAutoIncrement |-> FALSE, IsUnique |-> FALSE,
     IsIndex |-> FALSE, IsNotNull |-> FALSE, Size |-> 0, Precision |-> 0,
     Scale |-> 0, Default |-> <<>>, RawTag |-> sf.Tag, TagSettings |-> NoSettings,
     Referenced |-> <<>>, IsIgnored |-> FALSE, IsReadOnly |-> FALSE,
     IsWriteOnly |-> FALSE]

\* The ReferenceInfo as it would be if a setting of more than two parts were
\* accepted, the first two read.
ReferenceOfFirstParts(settings) ==
    LET parts == Split(settings[<<"r", "e", "f", "e", "r", "e", "n", "c", "e", "s">>], ".")
        Setting(key) == IF key \in DOMAIN settings THEN settings[key] ELSE <<>>
    IN  IF Len(parts) >= 2
        THEN << [Model |-> parts[1], Field |-> parts[2],
                 OnDelete |-> Setting(<<"o", "n", "D", "e", "l", "e", "t", "e">>), OnUpdate |-> Setting(<<"o", "n", "U", "p", "d", "a", "t", "e">>)] >>
        ELSE <<>>

\* The ReferenceInfo of a field's `references` setting.
Reference(settings) ==
    LET parts == Split(settings[<<"r", "e", "f", "e", "r", "e", "n", "c", "e", "s">>], ".")
        Setting(key) == IF key \in DOMAIN settings THEN settings[key] ELSE <<>>
    IN  IF Len(parts) = 2
        THEN << [Model |-> parts[1], Field |-> parts[2],
                 OnDelete |-> Setting(<<"o", "n", "D", "e", "l", "e", "t", "e">>), OnUpdate |-> Setting(<<"o", "n", "U", "p", "d", "a", "t", "e">>)] >>
        ELSE <<>>

\* ExtractFields, the processing of a field's origami tag.
ProcessTag(fi, tag) ==
    LET settings == ParseTagSettings(tag)
        Has(key) == key \in DOMAIN settings
    IN  [fi EXCEPT
           !.TagSettings = settings,
           !.DBName = IF Has(<<"c", "o", "l", "u", "m", "n">>) /\ settings[<<"c", "o", "l", "u", "m", "n">>] # <<>>
                      THEN settings[<<"c", "o", "l", "u", "m", "n">>] ELSE @,
           !.IsPrimaryKey = HasTagOption(tag, <<"p", "r", "i", "m", "a", "r", "y", "_", "k", "e", "y">>) \/ HasTagOption(tag, <<"p", "r", "i", "m", "a", "r", "y", "K", "e", "y">>),
           !.IsAutoIncrement = HasTagOption(tag, <<"a", "u", "t", "o", "_", "i", "n", "c", "r", "e", "m", "e", "n", "t">>)
                               \/ HasTagOption(tag, <<"a", "u", "t", "o", "I", "n", "c", "r", "e", "m", "e", "n", "t">>),
           !.IsUnique = HasTagOption(tag, <<"u", "n", "i", "q", "u", "e">>),
           !.IsIndex = HasTagOption(tag, <<"i", "n", "d", "e", "x">>),
           !.IsNotNull = HasTagOption(tag, <<"n", "o", "t", "_", "n", "u", "l", "l">>) \/ HasTagOption(tag, <<"n", "o", "t", "N", "u", "l", "l">>),
           !.IsIgnored = HasTagOption(tag, <<"-">>) \/ HasTagOption(tag, <<"i", "g", "n", "o", "r", "e">>),
           !.IsReadOnly = HasTagOption(tag, <<"r", "e", "a", "d", "o", "n", "l", "y">>) \/ HasTagOption(tag, <<"r", "e", "a", "d", "O", "n", "l", "y">>),
           !.IsWriteOnly = HasTagOption(tag, <<"w", "r", "i", "t", "e", "o", "n", "l", "y">>) \/ HasTagOption(tag, <<"w", "r", "i", "t", "e", "O", "n", "l", "y">>),
           !.Size = IF Has(<<"s", "i", "z", "e">>) THEN Sscanf(settings[<<"s", "i", "z", "e">>], @) ELSE @,
           !.Precision = IF Has(<<"p", "r", "e", "c", "i", "s", "i", "o", "n">>) THEN Sscanf(settings[<<"p", "r", "e", "c", "i", "s", "i", "o", "n">>], @) ELSE @,
           !.Scale = IF Has(<<"p", "r", "e", "c", "i", "s", "i", "o", "n">>) /\ Has(<<"s", "c", "a", "l", "e">>)
                     THEN Sscanf(settings[<<"s", "c", "a", "l", "e">>], @) ELSE @,
           !.Default = IF Has(<<"d", "e", "f", "a", "u", "l", "t">>) THEN settings[<<"d", "e", "f", "a", "u", "l", "t">>] ELSE @,
           !.Referenced = IF Has(<<"r", "e", "f", "e", "r", "e", "n", "c", "e", "s">>) THEN Reference(settings) ELSE @]

\* ExtractFields, the FieldInfo of a member that is not an embedded struct.
DirectField(sf) ==
    LET tag == TagLookup(sf.Tag)
    IN  IF tag.ok THEN ProcessTag(NewFieldInfo(sf), tag.value) ELSE NewFieldInfo(sf)

\* The name of the index group a field belongs to, under the tag key `key`
\* ("index" or "uniqueIndex") and the prefix "idx_" or "udx_".
IndexName(field, key, prefix, dbName) ==
    LET named == IF key \in DOMAIN field.TagSettings THEN field.TagSettings[key] ELSE <<>>
    IN  IF named = <<>> THEN prefix \o dbName \o <<"_">> \o field.DBName ELSE named

\* ExtractModelInfo, the table name: the snake-case type name, or the `table`
\* setting of the tag of a member named origami.
TableSettings(n) ==
    LET structTag == FieldByName(n, <<"o", "r", "i", "g", "a", "m", "i">>)
    IN  IF structTag # <<>> /\ TagLookup(structTag[1].Tag).ok
        THEN ParseTagSettings(TagLookup(structTag[1].Tag).value)
        ELSE NoSettings

\* ExtractModelInfo for the struct n, given the field descriptors that
\* ExtractFields returned, in the order it returned them.
ModelInfo(n, fields) ==
    LET settings == TableSettings(n)
        dbName == IF <<"t", "a", "b", "l", "e">> \in DOMAIN settings /\ settings[<<"t", "a", "b", "l", "e">>] # <<>>
                  THEN settings[<<"t", "a", "b", "l", "e">>] ELSE ToSnakeCase(StructDecl(n).Name)
        all == 1..Len(fields)
        Names(fs) == [k \in 1..Len(fs) |-> fs[k].Name]
        DBNames(fs) == [k \in 1..Len(fs) |-> fs[k].DBName]
        Idx(f) == IndexName(f, <<"i", "n", "d", "e", "x">>, <<"i", "d", "x", "_">>, dbName)
        Udx(f) == IndexName(f, <<"u", "n", "i", "q", "u", "e", "I", "n", "d", "e", "x">>, <<"u", "d", "x", "_">>, dbName)
        auto == SelectSeq(fields, LAMBDA f : f.IsAutoIncrement)
    IN  [Name |-> StructDecl(n).Name,
         Type |-> <<n>>,
         DBName |-> dbName,
         Fields |-> [name \in {fields[k].Name : k \in all} |->
                        fields[Max({k \in all : fields[k].Name = name})]],
         FieldsByDBName |-> [col \in {fields[k].DBName : k \in all} |->
                                fields[Max({k \in all : fields[k].DBName = col})]],
         PrimaryKey |-> Names(SelectSeq(fields, LAMBDA f : f.IsPrimaryKey)),
         AutoIncrement |-> IF auto = <<>> THEN <<>> ELSE auto[Len(auto)].Name,
         Indexes |-> [x \in {Idx(fields[k]) : k \in {j \in all : fields[j].IsIndex}} |->
                        DBNames(SelectSeq(fields, LAMBDA f : f.IsIndex /\ Idx(f) = x))],
         UniqueIndexes |-> [x \in {Udx(fields[k]) : k \in {j \in all : fields[j].IsUnique}} |->
                        DBNames(SelectSeq(fields, LAMBDA f : f.IsUnique /\ Udx(f) = x))],
         TagSettings |-> settings]

(***************************************************************************)
(* Metadata engine: ExtractFields, step by step                            *)
(*                                                                         *)
(* FieldInfo objects live in a heap and are known by their address, a pair *)
(* <<thread, number>>; the cache and the field lists hold addresses, as    *)
(* the code holds pointers.  A call of ExtractFields is a frame; a step    *)
(* is what one thread does to the shared heap and cache at once.           *)
(***************************************************************************)

NoFields == [name \in {} |-> <<0, 0>>]

\* The frame of ExtractFields(model, prefix) before its cache lookup.
\*   pc: "lookup" | "copy" | "fields" | "merge";  i: the cold loop's index;
\*   pending: the cached fields still to copy, or the embedded fields still to
\*   merge;  structFields: the result so far (`fields` on the warm path).
Frame(n, prefix) ==
    [type |-> n, prefix |-> prefix, pc |-> "lookup", i |-> 0, pending |-> <<>>,
     structFields |-> <<>>, fieldMap |-> NoFields]

\* The address of the next object thread t allocates.
NewAddress(heap, t) == <<t, Cardinality({a \in DOMAIN heap : a[1] = t}) + 1>>

\* The orders in which a range over the map m can visit its keys.
Orders(m) ==
    LET n == Cardinality(DOMAIN m)
    IN  {o \in [1..n -> DOMAIN m] : \A j, k \in 1..n : o[j] = o[k] => j = k}

\* ExtractFields returns `fields` from the frame on top of the stack: to the
\* merge loop of the frame below, or to the caller of the outermost call.
Return(heap, cache, frames, fields) ==
    LET below == SubSeq(frames, 1, Len(frames) - 1)
    IN  IF below = <<>>
        THEN [heap |-> heap, fieldCache |-> cache, frames |-> <<>>,
              done |-> TRUE, fields |-> fields]
        ELSE [heap |-> heap, fieldCache |-> cache,
              frames |-> [below EXCEPT ![Len(below)].pending = fields],
              done |-> FALSE, fields |-> <<>>]

\* The stack with its top frame replaced by f, the call still running.
Continue(heap, cache, frames, f) ==
    [heap |-> heap, fieldCache |-> cache,
     frames |-> [frames EXCEPT ![Len(frames)] = f], done |-> FALSE, fields |-> <<>>]

\* Lines 228-232: the cache lookup under the read lock.  On a hit the range
\* over the cached map visits its keys in the order `order`.
Lookup(heap, cache, frames, order) ==
    LET f == frames[Len(frames)]
    IN  IF f.type \in DOMAIN cache
        THEN Continue(heap, cache, frames,
                 [f EXCEPT !.pc = "copy",
                           !.pending = [k \in 1..Len(order) |-> cache[f.type][order[k]]]])
        ELSE Continue(heap, cache, frames, [f EXCEPT !.pc = "fields"])

\* Lines 234-245: the warm path copies the next cached field, or returns the
\* copies when none is left.
Copy(heap, cache, frames, t) ==
    LET f == frames[Len(frames)]
        field == Head(f.pending)
        fieldCopy == NewAddress(heap, t)
    IN  IF f.pending = <<>> THEN Return(heap, cache, frames, f.structFields)
        ELSE IF f.prefix # <<>> /\ heap[field].IsAnonymous
        THEN Continue(heap, cache, frames, [f EXCEPT !.pending = Tail(@)])
        ELSE Continue(heap @@ (fieldCopy :> heap[field]), cache, frames,
                 [f EXCEPT !.pending = Tail(@),
                           !.structFields = Append(@, fieldCopy)])

\* Lines 253-366 for the member i, or lines 368-373 when no member is left:
\* the cache write under the write lock and the return.
ParseFields(heap, cache, frames, t) ==
    LET f == frames[Len(frames)]
        sf == Field(f.type, f.i)
        fieldType == IndirectType(sf.Type)
        embeddedPrefix == IF f.prefix = <<>> THEN sf.Name
                          ELSE f.prefix \o <<".">> \o sf.Name
        fi == NewAddress(heap, t)
    IN  IF f.i >= NumField(f.type)
        THEN Return(heap, [n \in DOMAIN cache \cup {f.type} |->
                              IF n = f.type THEN f.fieldMap ELSE cache[n]],
                    frames, f.structFields)
        ELSE IF sf.PkgPath # <<>> /\ ~sf.Anonymous
        THEN Continue(heap, cache, frames, [f EXCEPT !.i = @ + 1])
        ELSE IF sf.Anonymous /\ Kind(fieldType) = "struct"
        THEN IF sf.PkgPath # <<>>
             THEN Continue(heap, cache, frames, [f EXCEPT !.i = @ + 1])
             ELSE [heap |-> heap, fieldCache |-> cache,
                   frames |-> Append([frames EXCEPT ![Len(frames)].pc = "merge"],
                                     Frame(Head(fieldType), embeddedPrefix)),
                   done |-> FALSE, fields |-> <<>>]
        ELSE Continue(heap @@ (fi :> DirectField(sf)), cache, frames,
                 [f EXCEPT !.i = @ + 1,
                           !.structFields = Append(@, fi),
                           !.fieldMap = [name \in DOMAIN @ \cup {sf.Name} |->
                                            IF name = sf.Name THEN fi ELSE @[name]]])

\* The merge loop as it would be if a later embedded field replaced the one
\* of its name that the frame holds.
MergeLastWins(heap, cache, frames) ==
    LET f == frames[Len(frames)]
        ef == Head(f.pending)
        others == SelectSeq(f.structFields, LAMBDA a : heap[a].Name # heap[ef].Name)
    IN  IF f.pending = <<>>
        THEN Continue(heap, cache, frames, [f EXCEPT !.pc = "fields", !.i = @ + 1])
        ELSE Continue([heap EXCEPT ![ef].Index = <<f.i>> \o @], cache, frames,
                 [f EXCEPT !.pending = Tail(@),
                           !.structFields = Append(others, ef),
                           !.fieldMap = [name \in DOMAIN @ \cup {heap[ef].Name} |->
                                            IF name = heap[ef].Name THEN ef ELSE @[name]]])

\* Lines 293-302: the next embedded field is merged into the frame, its index
\* path extended in place; after the last one the loop over the members goes on.
Merge(heap, cache, frames) ==
    LET f == frames[Len(frames)]
        ef == Head(f.pending)
    IN  IF f.pending = <<>>
        THEN Continue(heap, cache, frames, [f EXCEPT !.pc = "fields", !.i = @ + 1])
        ELSE IF heap[ef].Name \in DOMAIN f.fieldMap
        THEN Continue(heap, cache, frames, [f EXCEPT !.pending = Tail(@)])
        ELSE Continue([heap EXCEPT ![ef].Index = <<f.i>> \o @], cache, frames,
                 [f EXCEPT !.pending = Tail(@),
                           !.structFields = Append(@, ef),
                           !.fieldMap = [name \in DOMAIN @ \cup {heap[ef].Name} |->
                                            IF name = heap[ef].Name THEN ef ELSE @[name]]])

\* One step of the ExtractFields call on top of thread t's stack.
ExtractFields(heap, cache, frames, t, order) ==
    LET pc == frames[Len(frames)].pc
    IN  CASE pc = "lookup" -> Lookup(heap, cache, frames, order)
          [] pc = "copy" -> Copy(heap, cache, frames, t)
          [] pc = "fields" -> ParseFields(heap, cache, frames, t)
          [] pc = "merge" -> Merge(heap, cache, frames)

\* The orders a step can draw from: those of the cached map on a lookup that
\* hits, none otherwise.
StepOrders(cache, frames) ==
    LET f == frames[Len(frames)]
    IN  IF f.pc = "lookup" /\ f.type \in DOMAIN cache THEN Orders(cache[f.type]) ELSE {<<>>}

\* ExtractFields run by one thread to its return, nothing else running.
RECURSIVE RunExtract(_, _, _, _)
RunExtract(heap, cache, frames, t) ==
    LET Again(r) ==
            IF r.done THEN r ELSE RunExtract(r.heap, r.fieldCache, r.frames, t)
    IN  Again(ExtractFields(heap, cache, frames, t,
                            CHOOSE o \in StepOrders(cache, frames) : TRUE))

\* make(map[reflect.Type]map[string]*FieldInfo)
NoCache == [n \in {} |-> NoFields]

NoHeap == [a \in {} |-> 0]

(***************************************************************************)
(* State                                                                   *)
(***************************************************************************)

VARIABLES
    builders,   \* builder id -> the Builder's fields
    prev,       \* the builders as they were before the last completed call
    hist,       \* the completed calls, oldest first: [b |-> builder, c |-> call, out |-> outcome]
    todo,       \* thread -> the calls it still has to make, in order
    called,     \* thread -> the fluent call it was asked to make (NoCall: none yet)
    heap,       \* address -> the FieldInfo object at it
    fieldCache, \* struct type -> member name -> address of the cached FieldInfo
    stack,      \* thread -> the frames of its ExtractFields calls, outermost first
    extracted,  \* the calls of ExtractModelInfo, in the order they were made
    inserted,   \* address the cache holds -> the FieldInfo as it was inserted
    record,     \* the caller's struct value: member name -> value
    applied,    \* the calls of GetFieldValues, SetFieldValues and ValidateStruct made
    input,      \* the argument of the functions without state
    outputs     \* what the functions applied to input returned: function name -> value

builderVars == <<builders, prev, hist>>

threadVars == <<todo, called>>

metaVars == <<heap, fieldCache, stack, extracted, inserted>>

recordVars == <<record, applied>>

pureVars == <<input, outputs>>

vars == <<builders, prev, hist, todo, called, heap, fieldCache, stack, extracted, inserted,
          record, applied, input, outputs>>

Builders == {1, 2}

Threads == {1, 2}

\* Bounds: the number of calls in one behaviour, per specification.
MaxCalls == 2

MaxWhereCalls == 4

MaxStarterCalls == 4

MaxSpliceCalls == 3

MaxValuesCalls == 3

MaxExtractCalls == 2

MaxSectionCalls == 4

\* The number of calls of SpecOffsets.
MaxOffsetCalls == 4

MaxReturningCalls == 3

MaxLimitCalls == 2

MaxSetCalls == 3

MaxPointerCalls == 3

MaxRecordCalls == 1

\* The number of ExtractModelInfo calls of SpecAnnotated.
MaxAnnotatedCalls == 2

\* The longest identifier of SpecNames, the two long ones aside.
MaxNameLen == 4

\* The longest tag of SpecTags, the long ones aside.
MaxTagLen == 4

\* The longest value of SpecLike.
MaxLikeLen == 3

MaxConcurrentExtracts == 2

\* The metadata engine at program start: an empty cache and no call.
InitMetadata ==
    /\ heap = NoHeap
    /\ fieldCache = NoCache
    /\ stack = [t \in Threads |-> <<>>]
    /\ extracted = <<>>
    /\ inserted = NoHeap

\* No struct value is in use and no function has been applied.
NoRecord == [name \in {} |-> <<>>]

NoOutputs == [f \in {} |-> <<>>]

InitRecord == record = NoRecord /\ applied = <<>>

InitPure == input = <<>> /\ outputs = NoOutputs

\* Every builder is new, all of one dialect; no thread has been asked anything.
Init ==
    /\ \E d \in Dialects : builders = [b \in Builders |-> NewBuilder(d)]
    /\ prev = builders
    /\ hist = <<>>
    /\ todo = [t \in Threads |-> <<>>]
    /\ called = [t \in Threads |-> NoCall]
    /\ InitMetadata
    /\ InitRecord
    /\ InitPure

\* One thread makes the call c on builder b and the call returns before
\* anything else happens.
Call(b, c, max) ==
    /\ Len(hist) < max
    /\ builders' = Run(builders, b, <<c>>)
    /\ prev' = builders
    /\ hist' = Append(hist, [b |-> b, c |-> c, out |-> Outcome(builders, b, c)])
    /\ UNCHANGED <<threadVars, metaVars, recordVars, pureVars>>

(***************************************************************************)
(* Inputs                                                                  *)
(***************************************************************************)

\* Identifiers: a plain one, and one that holds the text ` where `.
Tables == {<<"u">>, <<"a", " ", "w", "h", "e", "r", "e", " ", "b">>}

\* Conditions with one `?` each.
Conditions == {<<"a", "=", "?">>, <<"b", ">", "?">>}

Vals == {"v1", "v2"}

\* Lists of bound values, of lengths 0 to 2.
ValLists == {<<>>, <<"v1">>, <<"v2", "v1">>}

\* Rows of bound values: none, an empty row, and rows of different lengths.
RowLists == {<<>>, << <<>> >>, << <<"v1">>, <<"v2", "v1">> >>}

(***************************************************************************)
(* The public operations, each called by one thread and run to its return  *)
(***************************************************************************)

CallReset(b, max) == Call(b, K("Reset"), max)

CallAppend(b, max) == Call(b, KS("Append", <<"x">>), max)

CallAppendQuoted(b, max) == Call(b, KS("AppendQuoted", <<"s", ".", "u">>), max)

CallAppendPlaceholder(b, max) == Call(b, K("AppendPlaceholder"), max)

CallArg(b, max) == \E v \in Vals : Call(b, KSA("Arg", <<>>, <<v>>), max)

CallAppendWithArgs(b, max) ==
    Call(b, KSA("AppendWithArgs", <<"x", "=", "?">>, <<"v1">>), max)

\* With as many arguments as `?`, with fewer and with more.
CallAppendWithPlaceholders(b, max) ==
    \E a \in ValLists : Call(b, KSA("AppendWithPlaceholders", <<"x", "=", "?">>, a), max)

CallMarkSection(b, max) == \E n \in {<<"s", "1">>, <<"s", "2">>} : Call(b, KS("MarkSection", n), max)

CallWithArgs(b, max) == Call(b, KSA("WithArgs", <<>>, <<"v1", "v2">>), max)

CallWhere(b, max) ==
    \E cond \in Conditions, v \in Vals : Call(b, KSA("Where", cond, <<v>>), max)

CallSelect(b, max) ==
    \E cols \in {<<>>, << <<"a">>, <<"n", "(", "a", ")">> >>} :
        Call(b, KSA("Select", <<>>, cols), max)

CallFrom(b, max) == \E t \in Tables : Call(b, KS("From", t), max)

CallHaving(b, max) == Call(b, KSA("Having", <<"n", ">", "?">>, <<"v1">>), max)

CallInsert(b, max) == Call(b, KS("Insert", <<"u">>), max)

CallValues(b, max) == \E a \in ValLists : Call(b, KSA("Values", <<>>, a), max)

CallMultipleValues(b, max) ==
    \E rows \in RowLists : Call(b, KSA("MultipleValues", <<>>, rows), max)

CallUpdate(b, max) == Call(b, KS("Update", <<"u">>), max)

CallSet(b, max) == Call(b, KSA("Set", <<"a">>, <<"v1">>), max)

\* A map of zero, one or two entries, in an order its iteration can yield.
CallSetMap(b, max) ==
    \E pairs \in {<<>>, << <<<<"a">>, "v1">> >>,
                  << <<<<"a">>, "v1">>, <<<<"c">>, "v2">> >>,
                  << <<<<"c">>, "v2">>, <<<<"a">>, "v1">> >>} :
        Call(b, KSA("SetMap", <<>>, pairs), max)

CallDelete(b, max) == Call(b, K("Delete"), max)

CallDeleteFrom(b, max) == Call(b, KS("DeleteFrom", <<"u">>), max)

CallUnion(b, max) == Call(b, KSA("Union", <<"q", "?">>, <<"v2">>), max)

CallCount(b, max) == \E col \in {<<>>, <<"*">>, <<"a">>} : Call(b, KS("Count", col), max)

CallCreateTable(b, max) ==
    \E f \in BOOLEAN : Call(b, [KS("CreateTable", <<"u">>) EXCEPT !.f = f], max)

CallAlterTable(b, max) == Call(b, KS("AlterTable", <<"u">>), max)

CallCreateIndex(b, max) ==
    \E f \in BOOLEAN :
        Call(b, [KS("CreateIndex", <<"i">>) EXCEPT !.t = <<"u">>, !.f = f], max)

CallDropTable(b, max) ==
    \E f \in BOOLEAN : Call(b, [KS("DropTable", <<"u">>) EXCEPT !.f = f], max)

CallDropIndex(b, max) ==
    \E f \in BOOLEAN : Call(b, [KS("DropIndex", <<"i">>) EXCEPT !.f = f], max)

\* The subquery is another builder or the builder itself.
CallSubquery(b, max) ==
    \E o \in Builders, alias \in {<<>>, <<"z">>} :
        Call(b, [K("Subquery") EXCEPT !.o = o, !.t = alias], max)

CallExists(b, max) == \E o \in Builders : Call(b, [K("Exists") EXCEPT !.o = o], max)

CallNotExists(b, max) ==
    \E o \in Builders : Call(b, [K("NotExists") EXCEPT !.o = o], max)

\* A section that may have been marked, and content that may be empty.
CallReplaceSection(b, max) ==
    \E n \in {<<"s", "1">>, <<"s", "2">>}, content \in {<<>>, <<"x", "y">>} :
        Call(b, [KS("ReplaceSection", n) EXCEPT !.t = content], max)

\* No column, plain columns, directions, and empty and blank columns.
CallOrderBy(b, max) ==
    \E cols \in {<<>>, <<<<"a">>>>, <<<<"a", " ", "D", "E", "S", "C">>, <<>>>>, <<<<" ", "d", "e", "s", "c">>>>, <<<<"b", " ", "a", "s", "c">>, <<" ", " ">>>>} :
        Call(b, KSA("OrderBy", <<>>, cols), max)

CallIndexColumns(b, max) ==
    \E cols \in {<<>>, <<<<"a">>>>, <<<<"a", " ", "D", "E", "S", "C">>, <<"b">>>>, <<<<>>>>, <<<<"a">>, <<" ">>>>} :
        Call(b, KSA("IndexColumns", <<>>, cols), max)

\* Limits and offsets: -1 (omitted), 0 and positive numbers.
Limits == {0 - 1, 0, 10, 20}

CallLimit(b, max) == \E limit \in Limits : Call(b, KSA("Limit", <<>>, <<limit>>), max)

CallOffset(b, max) == \E offset \in Limits : Call(b, KSA("Offset", <<>>, <<offset>>), max)

CallLimitOffset(b, max) ==
    \E limit \in Limits, offset \in Limits :
        Call(b, KSA("LimitOffset", <<>>, <<limit, offset>>), max)

CallReturning(b, max) ==
    \E column \in {<<"i", "d">>, <<"t", ".", "i", "d">>} : Call(b, KS("Returning", column), max)

(***************************************************************************)
(* Spec: every modelled operation on builder 1, with builder 2 a second    *)
(* builder that is built up by Select, From, Where and Values              *)
(***************************************************************************)

Next ==
    \/ CallReset(1, MaxCalls)
    \/ CallAppend(1, MaxCalls)
    \/ CallAppendQuoted(1, MaxCalls)
    \/ CallAppendPlaceholder(1, MaxCalls)
    \/ CallArg(1, MaxCalls)
    \/ CallAppendWithArgs(1, MaxCalls)
    \/ CallAppendWithPlaceholders(1, MaxCalls)
    \/ CallMarkSection(1, MaxCalls)
    \/ CallWithArgs(1, MaxCalls)
    \/ \E b \in Builders : CallWhere(b, MaxCalls)
    \/ \E b \in Builders : CallSelect(b, MaxCalls)
    \/ \E b \in Builders : CallFrom(b, MaxCalls)
    \/ CallHaving(1, MaxCalls)
    \/ CallInsert(1, MaxCalls)
    \/ \E b \in Builders : CallValues(b, MaxCalls)
    \/ CallMultipleValues(1, MaxCalls)
    \/ CallUpdate(1, MaxCalls)
    \/ CallSet(1, MaxCalls)
    \/ CallSetMap(1, MaxCalls)
    \/ CallDelete(1, MaxCalls)
    \/ CallDeleteFrom(1, MaxCalls)
    \/ CallUnion(1, MaxCalls)
    \/ CallCount(1, MaxCalls)
    \/ CallCreateTable(1, MaxCalls)
    \/ CallAlterTable(1, MaxCalls)
    \/ CallCreateIndex(1, MaxCalls)
    \/ CallDropTable(1, MaxCalls)
    \/ CallDropIndex(1, MaxCalls)
    \/ CallSubquery(1, MaxCalls)
    \/ CallExists(1, MaxCalls)
    \/ CallNotExists(1, MaxCalls)
    \/ CallReplaceSection(1, MaxCalls)
    \/ CallOrderBy(1, MaxCalls)
    \/ CallIndexColumns(1, MaxCalls)
    \/ CallLimit(1, MaxCalls)
    \/ CallOffset(1, MaxCalls)
    \/ CallLimitOffset(1, MaxCalls)
    \/ CallReturning(1, MaxCalls)

Spec == Init /\ [][Next]_vars

(***************************************************************************)
(* SpecWhere: one builder, Select, From and Where                          *)
(***************************************************************************)

NextWhere ==
    \/ CallSelect(1, MaxWhereCalls)
    \/ CallFrom(1, MaxWhereCalls)
    \/ CallWhere(1, MaxWhereCalls)

SpecWhere == Init /\ [][NextWhere]_vars

(***************************************************************************)
(* SpecStarters: Reset and the statement starters, after calls that leave  *)
(* text, arguments, a position and sections behind                         *)
(***************************************************************************)

\* Calls that leave text, arguments, a position and a section behind.
StarterPrefixes ==
    { <<KSA("Where", <<"a", "=", "?">>, <<"v1">>), KS("MarkSection", <<"s", "1">>)>>,
      <<KS("MarkSection", <<"s", "1">>), KSA("Values", <<>>, <<"v2", "v1">>)>>,
      <<KSA("Select", <<>>, <<>>), KS("From", <<"u">>)>> }

\* Builder 1 has made the calls of one of the prefixes since its construction.
InitStarters ==
    /\ \E d \in Dialects, pre \in StarterPrefixes :
         LET new == [b \in Builders |-> NewBuilder(d)]
         IN  /\ builders = Run(new, 1, pre)
             /\ prev = Run(new, 1, SubSeq(pre, 1, Len(pre) - 1))
             /\ hist = [i \in 1..Len(pre) |-> [b |-> 1, c |-> pre[i], out |-> "ok"]]
    /\ todo = [t \in Threads |-> <<>>]
    /\ called = [t \in Threads |-> NoCall]
    /\ InitMetadata
    /\ InitRecord
    /\ InitPure

NextStarters ==
    \/ CallReset(1, MaxStarterCalls)
    \/ CallSelect(1, MaxStarterCalls)
    \/ CallInsert(1, MaxStarterCalls)
    \/ CallUpdate(1, MaxStarterCalls)
    \/ CallDelete(1, MaxStarterCalls)
    \/ CallDeleteFrom(1, MaxStarterCalls)
    \/ CallCount(1, MaxStarterCalls)
    \/ CallCreateTable(1, MaxStarterCalls)
    \/ CallAlterTable(1, MaxStarterCalls)
    \/ CallCreateIndex(1, MaxStarterCalls)
    \/ CallDropTable(1, MaxStarterCalls)
    \/ CallDropIndex(1, MaxStarterCalls)
    \/ CallWhere(1, MaxStarterCalls)
    \/ CallMarkSection(1, MaxStarterCalls)

SpecStarters == InitStarters /\ [][NextStarters]_vars

(***************************************************************************)
(* SpecSplice: Subquery, Exists and NotExists between two builders         *)
(***************************************************************************)

NextSplice ==
    \/ \E b \in Builders : CallValues(b, MaxSpliceCalls)
    \/ CallSubquery(1, MaxSpliceCalls)
    \/ CallExists(1, MaxSpliceCalls)
    \/ CallNotExists(1, MaxSpliceCalls)

SpecSplice == Init /\ [][NextSplice]_vars

(***************************************************************************)
(* SpecValues: Insert, Values and MultipleValues                           *)
(***************************************************************************)

NextValues ==
    \/ CallInsert(1, MaxValuesCalls)
    \/ CallValues(1, MaxValuesCalls)
    \/ CallMultipleValues(1, MaxValuesCalls)
    \/ CallWhere(1, MaxValuesCalls)

SpecValues == Init /\ [][NextValues]_vars

(***************************************************************************)
(* SpecSections: one builder; text, arguments, sections and replacements   *)
(***************************************************************************)

NextSections ==
    \/ CallAppend(1, MaxSectionCalls)
    \/ CallAppendWithArgs(1, MaxSectionCalls)
    \/ CallMarkSection(1, MaxSectionCalls)
    \/ CallReplaceSection(1, MaxSectionCalls)
    \/ CallReset(1, MaxSectionCalls)

SpecSections == Init /\ [][NextSections]_vars

(***************************************************************************)
(* SpecOffsets: one builder; sections marked and replaced between appends, *)
(* Reset and a statement starter                                           *)
(***************************************************************************)

NextOffsets ==
    \/ CallAppend(1, MaxOffsetCalls)
    \/ CallMarkSection(1, MaxOffsetCalls)
    \/ CallReplaceSection(1, MaxOffsetCalls)
    \/ CallReset(1, MaxOffsetCalls)
    \/ CallInsert(1, MaxOffsetCalls)

SpecOffsets == Init /\ [][NextOffsets]_vars

(***************************************************************************)
(* SpecReturning: one builder; INSERT and UPDATE statements and Returning  *)
(***************************************************************************)

NextReturning ==
    \/ CallInsert(1, MaxReturningCalls)
    \/ CallValues(1, MaxReturningCalls)
    \/ CallUpdate(1, MaxReturningCalls)
    \/ CallSet(1, MaxReturningCalls)
    \/ CallAppend(1, MaxReturningCalls)
    \/ CallReturning(1, MaxReturningCalls)

SpecReturning == Init /\ [][NextReturning]_vars

(***************************************************************************)
(* SpecLimit: one builder; a SELECT and its LIMIT and OFFSET clauses       *)
(***************************************************************************)

NextLimit ==
    \/ CallSelect(1, MaxLimitCalls)
    \/ CallLimit(1, MaxLimitCalls)
    \/ CallOffset(1, MaxLimitCalls)
    \/ CallLimitOffset(1, MaxLimitCalls)

SpecLimit == Init /\ [][NextLimit]_vars

(***************************************************************************)
(* SpecSet: one builder; Update, Set and SetMap                            *)
(***************************************************************************)

NextSet ==
    \/ CallUpdate(1, MaxSetCalls)
    \/ CallSet(1, MaxSetCalls)
    \/ CallSetMap(1, MaxSetCalls)

SpecSet == Init /\ [][NextSet]_vars

(***************************************************************************)
(* SpecConcurrent: two threads each make one fluent call on builder 1.     *)
(* A step is one lock-protected section: nothing else of the builder runs  *)
(* inside it, and anything may run between two of them.                    *)
(***************************************************************************)

\* Statements under construction, without a WHERE, a SET or VALUES yet.
ConcurrentPrefixes ==
    { <<KSA("Select", <<>>, <<>>), KS("From", <<"u">>)>>,
      <<KS("Update", <<"u">>)>>,
      <<KS("Insert", <<"u">>)>> }

InitConcurrent ==
    /\ \E d \in Dialects, pre \in ConcurrentPrefixes :
         /\ builders = Run([b \in Builders |-> NewBuilder(d)], 1, pre)
         /\ hist = [i \in 1..Len(pre) |-> [b |-> 1, c |-> pre[i], out |-> "ok"]]
    /\ prev = builders
    /\ todo = [t \in Threads |-> <<>>]
    /\ called = [t \in Threads |-> NoCall]
    /\ InitMetadata
    /\ InitRecord
    /\ InitPure

\* Thread t is asked to make the call c on builder 1.
Begin(t, c) ==
    /\ called[t] = NoCall
    /\ called' = [called EXCEPT ![t] = c]
    /\ todo' = [todo EXCEPT ![t] = <<c>>]
    /\ UNCHANGED <<builderVars, metaVars, recordVars, pureVars>>

BeginWhere(t) == Begin(t, KSA("Where", IF t = 1 THEN <<"a", "=", "?">> ELSE <<"b", ">", "?">>,
                              <<IF t = 1 THEN "v1" ELSE "v2">>))

BeginValues(t) == Begin(t, KSA("Values", <<>>, <<IF t = 1 THEN "v1" ELSE "v2">>))

BeginSet(t) == Begin(t, KSA("Set", IF t = 1 THEN <<"a">> ELSE <<"c">>,
                            <<IF t = 1 THEN "v1" ELSE "v2">>))

BeginSelect(t) == Begin(t, KSA("Select", <<>>, <<>>))

\* Thread t takes the builder's lock, runs the next locked section it has to
\* run, and releases the lock.
Step(t) ==
    /\ todo[t] # <<>>
    /\ LET r == Exec(builders, 1, Head(todo[t]))
       IN  /\ builders' = r.bs
           /\ todo' = [todo EXCEPT ![t] = r.pre \o Tail(todo[t])]
    /\ UNCHANGED <<prev, hist, called, metaVars, recordVars, pureVars>>

NextConcurrent ==
    \E t \in Threads :
        \/ BeginWhere(t)
        \/ BeginValues(t)
        \/ BeginSet(t)
        \/ BeginSelect(t)
        \/ Step(t)

SpecConcurrent == InitConcurrent /\ [][NextConcurrent]_vars

(***************************************************************************)
(* The metadata engine: calls of ExtractModelInfo                          *)
(***************************************************************************)

\* The addresses the cache holds.
CacheOwned(cache) ==
    UNION {{cache[n][name] : name \in DOMAIN cache[n]} : n \in DOMAIN cache}

\* The FieldInfo objects at the addresses of a field list.
Deref(h, fields) == [k \in 1..Len(fields) |-> h[fields[k]]]

(***************************************************************************)
(* Metadata engine: reading, writing and validating the members of a value *)
(*                                                                         *)
(* A member's value is [kind, text]: its Go type ("int", "string", "bool") *)
(* and its value written as text.  A struct value is a map from member     *)
(* names to values.  A reflect.Value is [type, flagAddr]: flagAddr tells   *)
(* whether the value is addressable.                                       *)
(***************************************************************************)

Val(kind, text) == [kind |-> kind, text |-> text]

\* reflect.Zero
Zero(kind) ==
    CASE kind = "int" -> Val("int", <<"0">>)
      [] kind = "bool" -> Val("bool", <<"f", "a", "l", "s", "e">>)
      [] OTHER -> Val(kind, <<>>)

\* reflect.Value.IsZero
IsZero(v) == v = Zero(v.kind)

\* ExtractModelInfo run by thread t to its return, nothing else running.
ExtractModelInfo(h, cache, t, model) ==
    LET modelType == IndirectType(model)
        Built(r) == [err |-> FALSE, heap |-> r.heap, fieldCache |-> r.fieldCache,
                     info |-> <<ModelInfo(Head(modelType), Deref(r.heap, r.fields))>>]
    IN  IF Kind(modelType) # "struct"
        THEN [err |-> TRUE, heap |-> h, fieldCache |-> cache, info |-> <<>>]
        ELSE Built(RunExtract(h, cache, <<Frame(Head(modelType), <<>>)>>, t))

\* reflect.ValueOf of a value that is not nil: what ValueOf returns is not
\* addressable, whatever its type.
ValueOf(model) == [type |-> model, flagAddr |-> FALSE]

\* reflect.Value.CanAddr
CanAddr(v) == v.flagAddr

\* IndirectValue, for pointers that are not nil: what a pointer points to is
\* addressable.
RECURSIVE IndirectValue(_)
IndirectValue(v) ==
    IF Kind(v.type) = "ptr"
    THEN IndirectValue([type |-> Tail(v.type), flagAddr |-> TRUE])
    ELSE v

\* reflect.Value.FieldByIndex of a struct value without embedded structs: the
\* member's name.
FieldByIndex(v, index) == Field(Head(v.type), index[1]).Name

\* reflect.Value.CanSet of the field at index of the struct value v.
CanSet(v, index) == v.flagAddr /\ Field(Head(v.type), index[1]).PkgPath = <<>>

\* reflect.Type.AssignableTo, for the types int, string and bool
AssignableTo(src, dst) == src = dst

\* reflect.Type.ConvertibleTo, for the types int, string and bool
ConvertibleTo(src, dst) == src = dst \/ (src = "int" /\ dst = "string")

\* reflect.Value.Convert of an int to a string: the character of that code.
Convert(value, kind) ==
    IF value.kind = kind THEN value ELSE Val(kind, <<"#">> \o value.text)

\* GetFieldValues, the loop over mi.Fields in the order `order`.
RECURSIVE GetLoop(_, _, _, _, _, _)
GetLoop(mi, v, rec, onlyFields, order, res) ==
    IF order = <<>> THEN res
    ELSE LET name == Head(order)
             field == mi.Fields[name]
             skip == \/ field.IsIgnored \/ field.IsReadOnly
                     \/ ( /\ Len(onlyFields) > 0
                          /\ \A k \in 1..Len(onlyFields) : onlyFields[k] # name )
             value == rec[FieldByIndex(v, field.Index)]
         IN  GetLoop(mi, v, rec, onlyFields, Tail(order),
                     IF skip THEN res
                     ELSE [col \in DOMAIN res \cup {field.DBName} |->
                              IF col = field.DBName THEN value ELSE res[col]])

\* make(map[string]interface{})
NoValues == [col \in {} |-> Val("int", <<"0">>)]

\* GetFieldValues without its include list: every member that is neither
\* ignored nor read-only is returned.
GetFieldValuesUnfiltered(mi, model, rec, onlyFields, order) ==
    IF mi.err
    THEN [heap |-> mi.heap, fieldCache |-> mi.fieldCache, err |-> "model",
          field |-> <<>>, values |-> NoValues, record |-> rec]
    ELSE [heap |-> mi.heap, fieldCache |-> mi.fieldCache, err |-> "",
          field |-> <<>>,
          values |-> GetLoop(mi.info[1], IndirectValue(ValueOf(model)), rec,
                             <<>>, order, NoValues),
          record |-> rec]

\* GetFieldValues(model, onlyFields...) of the struct value rec, passed as a
\* value of type model; mi is what its call of ExtractModelInfo returns and
\* order the order of the range over mi.Fields.
GetFieldValues(mi, model, rec, onlyFields, order) ==
    IF mi.err
    THEN [heap |-> mi.heap, fieldCache |-> mi.fieldCache, err |-> "model",
          field |-> <<>>, values |-> NoValues, record |-> rec]
    ELSE [heap |-> mi.heap, fieldCache |-> mi.fieldCache, err |-> "",
          field |-> <<>>,
          values |-> GetLoop(mi.info[1], IndirectValue(ValueOf(model)), rec,
                             onlyFields, order, NoValues),
          record |-> rec]

\* SetFieldValues, the loop over values in the order `order`: the struct value
\* it leaves, and the member its error names (<<>>: no error).
RECURSIVE SetLoop(_, _, _, _, _)
SetLoop(mi, v, rec, values, order) ==
    IF order = <<>> THEN [record |-> rec, err |-> "", field |-> <<>>]
    ELSE LET dbName == Head(order)
             value == values[dbName]
         IN  IF dbName \notin DOMAIN mi.FieldsByDBName
             THEN SetLoop(mi, v, rec, values, Tail(order))
             ELSE LET field == mi.FieldsByDBName[dbName]
                      name == FieldByIndex(v, field.Index)
                      kind == rec[name].kind
                  IN  IF field.IsIgnored \/ field.IsWriteOnly
                      THEN SetLoop(mi, v, rec, values, Tail(order))
                      ELSE IF ~(CanAddr(v) /\ CanSet(v, field.Index))
                      THEN SetLoop(mi, v, rec, values, Tail(order))
                      ELSE IF AssignableTo(value.kind, kind)
                      THEN SetLoop(mi, v, [rec EXCEPT ![name] = value], values, Tail(order))
                      ELSE IF ConvertibleTo(value.kind, kind)
                      THEN SetLoop(mi, v, [rec EXCEPT ![name] = Convert(value, kind)],
                                   values, Tail(order))
                      ELSE [record |-> rec, err |-> "incompatible", field |-> field.Name]

\* SetFieldValues(model, values) on the struct value rec, passed as a value of
\* type model; mi is what its call of ExtractModelInfo returns and order the
\* order of the range over values.
SetFieldValues(mi, model, rec, values, order) ==
    LET modelValue == ValueOf(model)
    IN  IF mi.err
        THEN [heap |-> mi.heap, fieldCache |-> mi.fieldCache, err |-> "model",
              field |-> <<>>, values |-> NoValues, record |-> rec]
        ELSE IF ~CanAddr(modelValue)
        THEN [heap |-> mi.heap, fieldCache |-> mi.fieldCache, err |-> "addressable",
              field |-> <<>>, values |-> NoValues, record |-> rec]
        ELSE LET r == SetLoop(mi.info[1], IndirectValue(modelValue), rec, values, order)
             IN  [heap |-> mi.heap, fieldCache |-> mi.fieldCache, err |-> r.err,
                  field |-> r.field, values |-> NoValues,
                  record |-> IF Kind(model) = "ptr" THEN r.record ELSE rec]

\* ValidateStruct, the loop over mi.Fields in the order `order`: the member
\* its error names (<<>>: no error).
RECURSIVE ValidateLoop(_, _, _, _)
ValidateLoop(mi, v, rec, order) ==
    IF order = <<>> THEN <<>>
    ELSE LET field == mi.Fields[Head(order)]
         IN  IF field.IsIgnored THEN ValidateLoop(mi, v, rec, Tail(order))
             ELSE IF field.IsNotNull /\ IsZero(rec[FieldByIndex(v, field.Index)])
             THEN field.Name
             ELSE ValidateLoop(mi, v, rec, Tail(order))

\* ValidateStruct(model) of the struct value rec; mi is what its call of
\* ExtractModelInfo returns and order the order of the range over mi.Fields.
ValidateStruct(mi, model, rec, order) ==
    IF mi.err
    THEN [heap |-> mi.heap, fieldCache |-> mi.fieldCache, err |-> "model",
          field |-> <<>>, values |-> NoValues, record |-> rec]
    ELSE LET named == ValidateLoop(mi.info[1], IndirectValue(ValueOf(model)), rec, order)
         IN  [heap |-> mi.heap, fieldCache |-> mi.fieldCache,
              err |-> IF named = <<>> THEN "" ELSE "null",
              field |-> named, values |-> NoValues, record |-> rec]

\* No builder is in use: for the behaviours of the metadata engine.
InitExtract ==
    /\ builders = [b \in Builders |-> NewBuilder("postgres")]
    /\ prev = builders
    /\ hist = <<>>
    /\ todo = [t \in Threads |-> <<>>]
    /\ called = [t \in Threads |-> NoCall]
    /\ InitMetadata
    /\ InitRecord
    /\ InitPure

\* Thread t calls ExtractModelInfo(model): lines 143-159 and 174, and lines
\* 221-225 of the ExtractFields call it makes.
BeginExtractModelInfo(t, model, max) ==
    /\ stack[t] = <<>>
    /\ Len(extracted) < max
    /\ LET modelType == IndirectType(model)
           call == [t |-> t, model |-> model, type |-> Head(modelType),
                    cached |-> Head(modelType) \in DOMAIN fieldCache,
                    empty |-> fieldCache = NoCache,
                    done |-> FALSE, err |-> FALSE, fields |-> <<>>, info |-> <<>>]
       IN  IF Kind(modelType) # "struct"
           THEN /\ extracted' = Append(extracted, [call EXCEPT !.done = TRUE, !.err = TRUE])
                /\ UNCHANGED stack
           ELSE /\ extracted' = Append(extracted, call)
                /\ stack' = [stack EXCEPT ![t] = <<Frame(Head(modelType), <<>>)>>]
    /\ UNCHANGED <<heap, fieldCache, inserted, builderVars, threadVars, recordVars, pureVars>>

\* Thread t takes the next step of its ExtractFields call; when the outermost
\* call returns, ExtractModelInfo builds its descriptor of the fields returned
\* (lines 179-216).
ExtractStep(t) ==
    /\ stack[t] # <<>>
    /\ \E order \in StepOrders(fieldCache, stack[t]) :
         LET r == ExtractFields(heap, fieldCache, stack[t], t, order)
             k == CHOOSE k \in 1..Len(extracted) :
                      extracted[k].t = t /\ ~extracted[k].done
         IN  /\ heap' = r.heap
             /\ fieldCache' = r.fieldCache
             /\ stack' = [stack EXCEPT ![t] = r.frames]
             /\ extracted' =
                  IF r.done
                  THEN [extracted EXCEPT
                          ![k].done = TRUE,
                          ![k].fields = r.fields,
                          ![k].info = ModelInfo(extracted[k].type, Deref(r.heap, r.fields))]
                  ELSE extracted
             /\ inserted' = [a \in CacheOwned(r.fieldCache) |->
                               IF a \in DOMAIN inserted THEN inserted[a] ELSE r.heap[a]]
    /\ UNCHANGED <<builderVars, threadVars, recordVars, pureVars>>

\* ClearCache that drops the entry of one type and keeps the others.
ClearCacheOfOne(t) ==
    /\ stack[t] = <<>>
    /\ fieldCache # NoCache
    /\ LET n == CHOOSE n \in DOMAIN fieldCache : TRUE
           kept == [m \in DOMAIN fieldCache \ {n} |-> fieldCache[m]]
       IN  /\ fieldCache' = kept
           /\ inserted' = [a \in CacheOwned(kept) |-> inserted[a]]
    /\ UNCHANGED <<heap, stack, extracted, builderVars, threadVars, recordVars, pureVars>>

\* ClearCache, called by a thread that is in no call.
ClearCache(t) ==
    /\ stack[t] = <<>>
    /\ fieldCache' = NoCache
    /\ inserted' = NoHeap
    /\ UNCHANGED <<heap, stack, extracted, builderVars, threadVars, recordVars, pureVars>>

(***************************************************************************)
(* SpecExtract: one thread calls ExtractModelInfo and ClearCache, one call *)
(* after the other.                                                        *)
(***************************************************************************)

NextExtract ==
    \/ \E model \in Models : BeginExtractModelInfo(1, model, MaxExtractCalls)
    \/ ExtractStep(1)
    \/ ClearCache(1)

SpecExtract == InitExtract /\ [][NextExtract]_vars

(***************************************************************************)
(* SpecPointers: one thread calls ExtractModelInfo with values, pointers   *)
(* and pointers to pointers, and ClearCache.                               *)
(***************************************************************************)

NextPointers ==
    \/ \E model \in PointerModels : BeginExtractModelInfo(1, model, MaxPointerCalls)
    \/ ExtractStep(1)
    \/ ClearCache(1)

SpecPointers == InitExtract /\ [][NextPointers]_vars

(***************************************************************************)
(* SpecAnnotated: one thread calls ExtractModelInfo and ClearCache on      *)
(* types with index, reference and embedding annotations.                  *)
(***************************************************************************)

\* The values ExtractModelInfo is called with.
AnnotatedModels == {<<"Indexed">>, <<"Left">>, <<"Right">>, <<"Both">>, <<"Referrer">>}

NextAnnotated ==
    \/ \E model \in AnnotatedModels : BeginExtractModelInfo(1, model, MaxAnnotatedCalls)
    \/ ExtractStep(1)
    \/ ClearCache(1)

SpecAnnotated == InitExtract /\ [][NextAnnotated]_vars

(***************************************************************************)
(* SpecRecords: one thread reads, writes and validates the members of a    *)
(* Record, passed by value and by pointer.  Each function begins with a    *)
(* call of ExtractModelInfo, which runs in the steps of ExtractStep.       *)
(***************************************************************************)

\* The member names of Record.
RecordMembers == {<<"N", "a", "m", "e">>, <<"S", "e", "c", "r", "e", "t">>, <<"T", "o", "t", "a", "l">>, <<"T", "e", "m", "p">>}

\* The Record values a caller holds: with and without zero values in the
\* members that are not_null.
RecordValues ==
    {[name \in RecordMembers |->
        CASE name = <<"N", "a", "m", "e">> -> Val("string", n)
          [] name = <<"S", "e", "c", "r", "e", "t">> -> Val("string", s)
          [] name = <<"T", "o", "t", "a", "l">> -> Val("int", t)
          [] OTHER -> Val("bool", <<"f", "a", "l", "s", "e">>)] :
     n \in {<<>>, <<"x">>}, s \in {<<>>, <<"s">>}, t \in {<<"5">>}}

\* A Record passed by value and by pointer.
RecordModels == {<<"Record">>, <<"*", "Record">>}

\* onlyFields: none, one member, several members, a name that is no member.
OnlyFields == {<<>>, <<<<"N", "a", "m", "e">>>>, <<<<"S", "e", "c", "r", "e", "t">>, <<"T", "o", "t", "a", "l">>, <<"T", "e", "m", "p">>>>, <<<<"N", "o", "p", "e">>>>}

\* The maps of SetFieldValues: empty, columns that do not exist, values of
\* the member's type, values that convert to it and values that do not,
\* columns of write-only and ignored members.
ValueMaps ==
    {NoValues,
     [col \in {<<"n", "o", "p", "e">>} |-> Val("int", <<"1">>)],
     [col \in {<<"n", "o", "p", "e">>, <<"N", "a", "m", "e">>} |-> Val("string", <<"y">>)],
     [col \in {<<"n", "a", "m", "e">>} |-> Val("string", <<"y">>)],
     [col \in {<<"n", "a", "m", "e">>} |-> Val("bool", <<"t", "r", "u", "e">>)],
     [col \in {<<"n", "a", "m", "e">>} |-> Val("int", <<"7">>)],
     [col \in {<<"t", "o", "t", "a", "l">>, <<"n", "a", "m", "e">>} |-> IF col = <<"t", "o", "t", "a", "l">> THEN Val("int", <<"9">>) ELSE Val("string", <<"y">>)],
     [col \in {<<"t", "o", "t", "a", "l">>, <<"n", "a", "m", "e">>} |-> IF col = <<"t", "o", "t", "a", "l">> THEN Val("string", <<"q">>) ELSE Val("string", <<"y">>)],
     [col \in {<<"s", "e", "c", "r", "e", "t">>, <<"t", "e", "m", "p">>} |-> IF col = <<"s", "e", "c", "r", "e", "t">> THEN Val("string", <<"z">>) ELSE Val("bool", <<"t", "r", "u", "e">>)]}

InitRecords ==
    /\ builders = [b \in Builders |-> NewBuilder("postgres")]
    /\ prev = builders
    /\ hist = <<>>
    /\ todo = [t \in Threads |-> <<>>]
    /\ called = [t \in Threads |-> NoCall]
    /\ InitMetadata
    /\ record \in RecordValues
    /\ applied = <<>>
    /\ InitPure

\* A function working on the Record begins: thread 1 calls ExtractModelInfo
\* with the model, as the first thing GetFieldValues, SetFieldValues and
\* ValidateStruct do.  The steps of that call are those of ExtractStep.
BeginRecordCall(model, max) ==
    /\ Len(applied) = Len(extracted)
    /\ BeginExtractModelInfo(1, model, max)

\* The call of ExtractModelInfo has returned and the function that made it
\* has not gone on yet.
Pending ==
    /\ stack[1] = <<>>
    /\ Len(applied) < Len(extracted)
    /\ extracted[Len(extracted)].done

\* What the call of ExtractModelInfo that has just returned gave.
Described ==
    LET call == extracted[Len(extracted)]
    IN  [err |-> call.err, heap |-> heap, fieldCache |-> fieldCache,
         info |-> IF call.err THEN <<>> ELSE <<call.info>>]

\* The function goes on from there and returns with outcome r.
Apply(op, onlyFields, values, r) ==
    /\ record' = r.record
    /\ applied' = Append(applied,
                         [op |-> op, model |-> extracted[Len(extracted)].model,
                          onlyFields |-> onlyFields,
                          values |-> values, before |-> record,
                          cached |-> extracted[Len(extracted)].cached,
                          err |-> r.err, field |-> r.field, result |-> r.values])
    /\ UNCHANGED <<metaVars, builderVars, threadVars, pureVars>>

\* The orders of a range over the map of the given keys, as far as they can
\* differ in their effect: every order of the keys on which the body of the
\* loop acts, followed by the keys that the body skips.
RangeOrders(keys, acts) ==
    LET skipped == CHOOSE o \in Orders([k \in keys \ acts |-> TRUE]) : TRUE
    IN  {o \o skipped : o \in Orders([k \in acts |-> TRUE])}

CallGetFieldValues ==
    /\ Pending
    /\ \E onlyFields \in OnlyFields :
         LET mi == Described
             model == extracted[Len(extracted)].model
             Taken(name) == GetLoop(mi.info[1], IndirectValue(ValueOf(model)), record,
                                    onlyFields, <<name>>, NoValues) # NoValues
             names == DOMAIN mi.info[1].Fields
         IN  \E order \in RangeOrders(names, {name \in names : Taken(name)}) :
                 Apply("GetFieldValues", onlyFields, NoValues,
                       GetFieldValues(mi, model, record, onlyFields, order))

CallSetFieldValues ==
    /\ Pending
    /\ \E values \in ValueMaps :
           \E order \in Orders(values) :
               Apply("SetFieldValues", <<>>, values,
                     SetFieldValues(Described, extracted[Len(extracted)].model, record,
                                    values, order))

CallValidateStruct ==
    /\ Pending
    /\ LET mi == Described
           model == extracted[Len(extracted)].model
           Fails(name) == ValidateLoop(mi.info[1], IndirectValue(ValueOf(model)), record,
                                       <<name>>) # <<>>
           names == DOMAIN mi.info[1].Fields
       IN  \E order \in RangeOrders(names, {name \in names : Fails(name)}) :
               Apply("ValidateStruct", <<>>, NoValues,
                     ValidateStruct(mi, model, record, order))

NextRecords ==
    \/ \E model \in RecordModels : BeginRecordCall(model, MaxRecordCalls)
    \/ ExtractStep(1)
    \/ CallGetFieldValues
    \/ CallSetFieldValues
    \/ CallValidateStruct

SpecRecords == InitRecords /\ [][NextRecords]_vars

(***************************************************************************)
(* SpecNames: the naming functions, applied to one identifier.  The        *)
(* functions read and write no state of the program: input is the          *)
(* identifier and outputs holds what each function returned.               *)
(***************************************************************************)

\* The strings of at most n characters of chars.
StringsUpTo(chars, n) == UNION {[1..k -> chars] : k \in 0..n}

\* The characters of the identifiers: lower case, upper case, digit and
\* underscore.
NameChars == {"a", "A", "B", "1", "_"}

\* The identifiers: all short ones, and two longer ones of common shape.
Names == StringsUpTo(NameChars, MaxNameLen) \cup {<<"H", "T", "T", "P", "S", "e", "r", "v", "e", "r">>, <<"U", "s", "e", "r", "I", "D">>}

\* Function f returned value.
Returns(f, value) ==
    /\ outputs' = [g \in DOMAIN outputs \cup {f} |-> IF g = f THEN value ELSE outputs[g]]
    /\ UNCHANGED <<input, builderVars, threadVars, metaVars, recordVars>>

InitNames ==
    /\ builders = [b \in Builders |-> NewBuilder("postgres")]
    /\ prev = builders
    /\ hist = <<>>
    /\ todo = [t \in Threads |-> <<>>]
    /\ called = [t \in Threads |-> NoCall]
    /\ InitMetadata
    /\ InitRecord
    /\ input \in Names
    /\ outputs = NoOutputs

CallToSnakeCase == Returns("ToSnakeCase", ToSnakeCase(input))

\* ToCamelCase and ToPascalCase of what ToSnakeCase returned.
CallToCamelCase ==
    /\ "ToSnakeCase" \in DOMAIN outputs
    /\ Returns("ToCamelCase", ToCamelCase(outputs["ToSnakeCase"]))

CallToPascalCase ==
    /\ "ToSnakeCase" \in DOMAIN outputs
    /\ Returns("ToPascalCase", ToPascalCase(outputs["ToSnakeCase"]))

NextNames ==
    \/ CallToSnakeCase
    \/ CallToCamelCase
    \/ CallToPascalCase

SpecNames == InitNames /\ [][NextNames]_vars

(***************************************************************************)
(* SpecTags: the tag functions, applied to one tag.                        *)
(***************************************************************************)

\* The characters of the tags: letters, the separators and the space.
TagChars == {"a", "b", ":", ";", " "}

\* The tags: all short ones, and longer ones with padded parts, keys that
\* come back, parts without a key and empty parts.
Tags ==
    StringsUpTo(TagChars, MaxTagLen)
    \cup {<<" ", "a", " ", ":", " ", "b", " ", ";", "a", ":", "c", ";", " ", ";", ":", "d", ";", "b">>, <<"a", ":", "b", ";", "a">>, <<"b", ";", "a", ":", "b", ":", "a", ";", " ", "a", " ">>, <<";", ";", "a", ":", " ", ";", "b", " ", ":", "a", " ", "b">>, <<"u", "n", "i", "q", "u", "e", ";", "s", "i", "z", "e", ":", "6", "4", ";", "c", "o", "l", "u", "m", "n", ":", "i", "d">>}

\* The options asked for.
TagOptions == {<<>>, <<"a">>, <<"b">>, <<"a", ":", "b">>, <<"u", "n", "i", "q", "u", "e">>, <<"s", "i", "z", "e">>}

InitTags ==
    /\ builders = [b \in Builders |-> NewBuilder("postgres")]
    /\ prev = builders
    /\ hist = <<>>
    /\ todo = [t \in Threads |-> <<>>]
    /\ called = [t \in Threads |-> NoCall]
    /\ InitMetadata
    /\ InitRecord
    /\ input \in Tags
    /\ outputs = NoOutputs

CallParseTagSettings == Returns("ParseTagSettings", ParseTagSettings(input))

CallHasTagOption ==
    \E option \in TagOptions :
        Returns("HasTagOption", [option |-> option, found |-> HasTagOption(input, option)])

NextTags ==
    \/ CallParseTagSettings
    \/ CallHasTagOption

SpecTags == InitTags /\ [][NextTags]_vars

(***************************************************************************)
(* SpecLike: EscapeLike of each dialect, applied to one value.             *)
(***************************************************************************)

\* The characters of the values: the three that are escaped and one that is
\* not.
LikeChars == {"\\", "%", "_", "a"}

LikeValues == StringsUpTo(LikeChars, MaxLikeLen)

InitLike ==
    /\ builders = [b \in Builders |-> NewBuilder("postgres")]
    /\ prev = builders
    /\ hist = <<>>
    /\ todo = [t \in Threads |-> <<>>]
    /\ called = [t \in Threads |-> NoCall]
    /\ InitMetadata
    /\ InitRecord
    /\ input \in LikeValues
    /\ outputs = NoOutputs

\* Builder.EscapeLike on a builder of dialect d.
CallEscapeLike == \E d \in Dialects : Returns(d, EscapeLike(d, input))

NextLike == CallEscapeLike

SpecLike == InitLike /\ [][NextLike]_vars

(***************************************************************************)
(* SpecExtractConcurrent: two threads call ExtractModelInfo, starting from *)
(* an empty cache; their steps interleave.                                 *)
(***************************************************************************)

NextExtractConcurrent ==
    \E t \in Threads :
        \/ \E model \in Models : BeginExtractModelInfo(t, model, MaxConcurrentExtracts)
        \/ ExtractStep(t)

SpecExtractConcurrent == InitExtract /\ [][NextExtractConcurrent]_vars

(***************************************************************************)
(* Claims about the SQL Builder                                            *)
(***************************************************************************)

\* The last completed call, and the builder it was made on.
LastCall == hist[Len(hist)].c

LastBuilder == hist[Len(hist)].b

\* C1: in every state a builder reaches through its public operations, the
\* length of the argument list equals the position counter.
C1_ArgsMatchPlaceholders ==
    \A b \in Builders : Len(builders[b].args) = builders[b].argPosition

\* hist[j] is Select(), hist[j+1] is From, and every later call is a Where with
\* one argument, all on builder 1.
WhereChainAt(j) ==
    /\ j + 2 <= Len(hist)
    /\ \A i \in j..Len(hist) : hist[i].b = 1
    /\ hist[j].c.k = "Select" /\ hist[j].c.a = <<>>
    /\ hist[j + 1].c.k = "From"
    /\ \A i \in (j + 2)..Len(hist) : hist[i].c.k = "Where" /\ Len(hist[i].c.a) = 1

\* The condition with its one `?` replaced by the placeholder $n.
WithDollar(condition, n) ==
    LET q == IndexRune(condition, "?")
    IN  SubSeq(condition, 1, q - 1) \o <<"$">> \o Itoa(n) \o
        SubSeq(condition, q + 1, Len(condition))

\* What C2 says Select().From(table) and the Where calls hist[j+2..] leave on a
\* Postgres builder: one WHERE, then ANDs, $1..$k and the k arguments in order.
WhereChainHolds(j) ==
    LET k == Len(hist) - (j + 1)
    IN  /\ builders[1].buffer =
             <<"S", "E", "L", "E", "C", "T", " ", "*", " ", "F", "R", "O", "M", " ">>
             \o <<"\"">> \o hist[j + 1].c.s \o <<"\"">> \o
             Flatten([i \in 1..k |->
                 (IF i = 1 THEN <<" ", "W", "H", "E", "R", "E", " ">>
                           ELSE <<" ", "A", "N", "D", " ">>)
                 \o WithDollar(hist[j + 1 + i].c.s, i)])
        /\ builders[1].args = [i \in 1..k |-> hist[j + 1 + i].c.a[1]]

Starters ==
    {"Select", "Insert", "Update", "Delete", "DeleteFrom", "Count", "CreateTable",
     "AlterTable", "CreateIndex", "DropTable", "DropIndex"}

\* C3: Reset and every statement starter discard the text, the arguments, the
\* position counter and the sections accumulated before and keep the dialect;
\* after a starter the text is what the starter writes on a new builder and the
\* next placeholder has position 1.  No other builder changes.
C3_StartersDiscard ==
    (hist # <<>> /\ LastCall.k \in Starters \cup {"Reset"}) =>
        LET b == LastBuilder
            st == builders[b]
            new == NewBuilder(prev[b].dialect)
        IN  /\ st.dialect = prev[b].dialect
            /\ st.args = <<>>
            /\ st.argPosition = 0
            /\ st.sections = NoSections
            /\ AppendPlaceholder(st).argPosition = 1
            /\ LastCall.k = "Reset" => st.buffer = <<>>
            /\ LastCall.k \in Starters =>
                 /\ st.buffer # <<>>
                 /\ st.buffer = Run([builders EXCEPT ![b] = new], b, <<LastCall>>)[b].buffer
            /\ \A o \in Builders \ {b} : builders[o] = prev[o]

\* A starter called on a builder that held text, arguments, a position and a
\* section.
C3_Witness ==
    /\ hist # <<>>
    /\ LastCall.k \in Starters
    /\ prev[LastBuilder].buffer # <<>>
    /\ prev[LastBuilder].args # <<>>
    /\ prev[LastBuilder].argPosition > 0
    /\ prev[LastBuilder].sections # NoSections

\* What Subquery, Exists and NotExists write before the subquery's text.
SpliceOpening(k) ==
    CASE k = "Subquery" -> <<"(">>
      [] k = "Exists" -> <<"E", "X", "I", "S", "T", "S", " ", "(">>
      [] k = "NotExists" -> <<"N", "O", "T", " ", "E", "X", "I", "S", "T", "S", " ", "(">>

\* C4: Subquery, Exists and NotExists on an outer builder with another builder
\* as the subquery append the subquery's text in parentheses (and the alias, if
\* one is given) to the outer text, make the outer arguments the previous outer
\* arguments followed by the subquery's in their order, and leave the subquery
\* builder as it was.
C4_SpliceAppends ==
    ( /\ hist # <<>>
      /\ LastCall.k \in {"Subquery", "Exists", "NotExists"}
      /\ LastCall.o # LastBuilder ) =>
        LET b == LastBuilder
            o == LastCall.o
        IN  /\ builders[b].buffer =
                 prev[b].buffer \o SpliceOpening(LastCall.k) \o prev[o].buffer \o <<")">>
                 \o (IF LastCall.t # <<>>
                     THEN <<" ", "A", "S", " ">> \o Quote(prev[b].dialect, LastCall.t)
                     ELSE <<>>)
            /\ builders[b].args = prev[b].args \o prev[o].args
            /\ builders[o] = prev[o]

\* A splice of a builder that holds two different arguments into an outer
\* builder that holds arguments of its own.
C4_Witness ==
    /\ hist # <<>>
    /\ LastCall.k \in {"Subquery", "Exists", "NotExists"}
    /\ LastCall.o # LastBuilder
    /\ prev[LastBuilder].args # <<>>
    /\ Len(prev[LastCall.o].args) = 2
    /\ prev[LastCall.o].args[1] # prev[LastCall.o].args[2]
    /\ prev[LastCall.o].buffer # <<>>

\* The placeholders of positions from + 1 .. from + n, separated by ", ".
FreshPlaceholders(d, from, n) ==
    Join([i \in 1..n |-> Placeholder(d, from + i)], <<",", " ">>)

\* The number of values in rows[1..i].
RECURSIVE ValuesBefore(_, _)
ValuesBefore(rows, i) == IF i = 0 THEN 0 ELSE ValuesBefore(rows, i - 1) + Len(rows[i])

\* C5: Values and MultipleValues append one placeholder per supplied value,
\* with the positions previous counter + 1, + 2, ..., and append the values to
\* the arguments in the same order, row by row; no value appears in the text.
C5_ValuesAreBound ==
    (hist # <<>> /\ LastCall.k \in {"Values", "MultipleValues"}) =>
        LET b == LastBuilder
            p == prev[b]
            st == builders[b]
            a == LastCall.a
        IN  /\ LastCall.k = "Values" =>
                 /\ st.buffer = p.buffer \o <<" ", "V", "A", "L", "U", "E", "S", " ", "(">>
                                 \o FreshPlaceholders(p.dialect, p.argPosition, Len(a))
                                 \o <<")">>
                 /\ st.args = p.args \o a
                 /\ st.argPosition = p.argPosition + Len(a)
            /\ LastCall.k = "MultipleValues" =>
                 /\ st.buffer = p.buffer \o <<" ", "V", "A", "L", "U", "E", "S", " ">> \o
                       Join([i \in 1..Len(a) |->
                               <<"(">> \o
                               FreshPlaceholders(p.dialect,
                                   p.argPosition + ValuesBefore(a, i - 1), Len(a[i]))
                               \o <<")">>], <<",", " ">>)
                 /\ st.args = p.args \o Flatten(a)
                 /\ st.argPosition = p.argPosition + ValuesBefore(a, Len(a))
            /\ \A i \in 1..Len(st.buffer) : st.buffer[i] \notin Vals

\* MultipleValues with two rows on a Postgres builder whose counter a Values
\* call with two values has advanced.
C5_Witness ==
    /\ hist # <<>>
    /\ LastCall.k = "MultipleValues"
    /\ Len(LastCall.a) = 2
    /\ prev[LastBuilder].dialect = "postgres"
    /\ prev[LastBuilder].argPosition >= 2
    /\ \E i \in 1..(Len(hist) - 1) : hist[i].c.k = "Values" /\ Len(hist[i].c.a) = 2

\* Both threads have made their call and both calls have returned.
BothReturned == \A t \in Threads : called[t] # NoCall /\ todo[t] = <<>>

\* Builder 1 after thread first's call and then thread second's, one after the
\* other, from the state the two calls found.
Serial(first, second) ==
    Run(Run(prev, 1, <<called[first]>>), 1, <<called[second]>>)[1]

\* The number of places at which sub occurs in s.
Occurrences(s, sub) ==
    Cardinality({i \in 0..(Len(s) - Len(sub)) : SubSeq(s, i + 1, i + Len(sub)) = sub})

\* C9: two concurrent fluent calls on one builder leave the text and the
\* arguments that the two calls leave when run one after the other in some
\* order; two concurrent Where calls on a builder without a WHERE write
\* ` WHERE ` once.
C9_CallsSerialized ==
    BothReturned =>
        /\ \/ /\ builders[1].buffer = Serial(1, 2).buffer
              /\ builders[1].args = Serial(1, 2).args
           \/ /\ builders[1].buffer = Serial(2, 1).buffer
              /\ builders[1].args = Serial(2, 1).args
        /\ ( /\ \A t \in Threads : called[t].k = "Where"
             /\ ~Contains(ToUpper(prev[1].buffer), <<" ", "W", "H", "E", "R", "E", " ">>) )
           => Occurrences(builders[1].buffer, <<" ", "W", "H", "E", "R", "E", " ">>) = 1

(***************************************************************************)
(* Claims about the metadata engine                                        *)
(***************************************************************************)

\* The call extracted[k] has returned a descriptor.
Returned(k) == extracted[k].done /\ ~extracted[k].err

Range(s) == {s[k] : k \in DOMAIN s}

\* Two descriptors name the same members, map members to columns and columns
\* to members alike, and designate the same primary-key members and the same
\* auto-increment member.
SameDesignations(a, b) ==
    /\ DOMAIN a.Fields = DOMAIN b.Fields
    /\ \A name \in DOMAIN a.Fields : a.Fields[name].DBName = b.Fields[name].DBName
    /\ DOMAIN a.FieldsByDBName = DOMAIN b.FieldsByDBName
    /\ \A col \in DOMAIN a.FieldsByDBName :
           a.FieldsByDBName[col].Name = b.FieldsByDBName[col].Name
    /\ Range(a.PrimaryKey) = Range(b.PrimaryKey)
    /\ a.AutoIncrement = b.AutoIncrement

\* C6: the descriptor of the first ExtractModelInfo of a type on an empty
\* cache and the descriptor of a second one, served from the cache, have the
\* same member names, member-to-column and column-to-member mappings,
\* primary-key members and auto-increment member.
C6_ColdEqualsWarm ==
    \A k \in 1..(Len(extracted) - 1) :
        ( /\ extracted[k].empty /\ Returned(k)
          /\ extracted[k + 1].type = extracted[k].type
          /\ extracted[k + 1].cached /\ Returned(k + 1) )
        => SameDesignations(extracted[k].info, extracted[k + 1].info)

\* C7: a FieldInfo in the cache is as it was when it was inserted, and no
\* FieldInfo that a call has returned is one the cache holds.
C7_CacheNeverModified ==
    /\ \A a \in DOMAIN inserted : heap[a] = inserted[a]
    /\ \A k \in 1..Len(extracted) :
           Returned(k) => Range(extracted[k].fields) \cap CacheOwned(fieldCache) = {}

\* C8: the fields extracted for an outer type that embeds Inner and declares
\* Name itself, in either order, hold one descriptor named Name, the outer
\* type's own, and the descriptor built of them has no column, key or index
\* of the embedded Name.
C8_OuterNameWins ==
    \A k \in 1..Len(extracted) :
        (Returned(k) /\ extracted[k].type \in {"OuterA", "OuterB"}) =>
            LET fields == Deref(heap, extracted[k].fields)
                named == {j \in 1..Len(fields) : fields[j].Name = <<"N", "a", "m", "e">>}
                own == FieldByName(extracted[k].type, <<"N", "a", "m", "e">>)[1]
            IN  /\ Cardinality(named) = 1
                /\ \A j \in named : fields[j].Index = own.Index /\ fields[j].RawTag = own.Tag
                /\ <<"f", "u", "l", "l", "_", "n", "a", "m", "e">> \notin DOMAIN extracted[k].info.FieldsByDBName
                /\ <<"N", "a", "m", "e">> \notin Range(extracted[k].info.PrimaryKey)
                /\ extracted[k].info.Indexes = [x \in {} |-> <<>>]

\* What one ExtractModelInfo of the struct n, alone and on an empty cache,
\* returns and leaves in the cache for n.
Sequential(n) ==
    LET r == RunExtract(NoHeap, NoCache, <<Frame(n, <<>>)>>, 1)
    IN  [info |-> ModelInfo(n, Deref(r.heap, r.fields)),
         cached |-> [name \in DOMAIN r.fieldCache[n] |-> r.heap[r.fieldCache[n][name]]]]

\* Two maps from member names to FieldInfo hold the same members with the
\* same column, key flags and index path.
SameMembers(f, g) ==
    /\ DOMAIN f = DOMAIN g
    /\ \A name \in DOMAIN f :
           /\ f[name].DBName = g[name].DBName
           /\ f[name].Index = g[name].Index
           /\ f[name].IsPrimaryKey = g[name].IsPrimaryKey
           /\ f[name].IsAutoIncrement = g[name].IsAutoIncrement

\* C10: when two threads call ExtractModelInfo on the same type, neither
\* finding it cached when it calls, each call returns a descriptor equivalent
\* to the one a sequential call returns, and when both have returned the
\* cache holds an entry for the type equivalent to the sequential one.
C10_ConcurrentEqualsSequential ==
    \A j, k \in 1..Len(extracted) :
        ( /\ extracted[j].t # extracted[k].t
          /\ extracted[j].type = extracted[k].type
          /\ Returned(j) /\ Returned(k)
          /\ ~extracted[j].cached /\ ~extracted[k].cached )
        => LET n == extracted[j].type
               info == extracted[j].info
           IN  /\ SameDesignations(info, Sequential(n).info)
               /\ SameMembers(info.Fields, Sequential(n).info.Fields)
               /\ n \in DOMAIN fieldCache
               /\ SameMembers([name \in DOMAIN fieldCache[n] |-> heap[fieldCache[n][name]]],
                              Sequential(n).cached)

\* Whether the i-th call discards the sections of builder b.
Discards(i, b) ==
    hist[i].b = b /\ hist[i].c.k \in Starters \cup {"Reset"}

\* Whether name was passed to MarkSection on builder b since its last reset.
MarkedSinceReset(b, name) ==
    \E i \in 1..(Len(hist) - 1) :
        /\ hist[i].b = b
        /\ hist[i].c.k = "MarkSection"
        /\ hist[i].c.s = name
        /\ \A j \in (i + 1)..(Len(hist) - 1) : ~Discards(j, b)

\* C11: ReplaceSection with a name that was not passed to MarkSection since
\* the last reset returns an error and leaves the text, the arguments, the
\* position counter and the sections of the builder unchanged.
C11_UnmarkedSectionFails ==
    ( /\ hist # <<>>
      /\ LastCall.k = "ReplaceSection"
      /\ ~MarkedSinceReset(LastBuilder, LastCall.s) ) =>
        /\ hist[Len(hist)].out = "error"
        /\ builders = prev

\* A replacement of a section that was marked before the last Reset, on a
\* builder that holds text, an argument and another section.
C11_Witness ==
    /\ hist # <<>>
    /\ LastCall.k = "ReplaceSection"
    /\ LastCall.t # <<>>
    /\ ~MarkedSinceReset(LastBuilder, LastCall.s)
    /\ prev[LastBuilder].buffer # <<>>
    /\ prev[LastBuilder].args # <<>>
    /\ \/ DOMAIN prev[LastBuilder].sections # {}
       \/ \E i \in 1..(Len(hist) - 1) :
            hist[i].c.k = "MarkSection" /\ hist[i].c.s = LastCall.s

\* C12: MarkSection(name) records the length of the text as the offset of
\* name and changes nothing else; ReplaceSection(name, c) of a marked name
\* returns no error and makes the text the old text up to the offset, then c,
\* then the rest of the old text, and the arguments, the position counter and
\* every section offset keep their values.
C12_SectionSplice ==
    hist # <<>> =>
        LET b == LastBuilder
            name == LastCall.s
        IN  /\ LastCall.k = "MarkSection" =>
                /\ name \in DOMAIN builders[b].sections
                /\ builders[b].sections[name] = Len(prev[b].buffer)
                /\ \A n \in DOMAIN prev[b].sections \ {name} :
                       /\ n \in DOMAIN builders[b].sections
                       /\ builders[b].sections[n] = prev[b].sections[n]
                /\ DOMAIN builders[b].sections = DOMAIN prev[b].sections \cup {name}
                /\ builders[b].buffer = prev[b].buffer
                /\ builders[b].args = prev[b].args
                /\ builders[b].argPosition = prev[b].argPosition
            /\ (LastCall.k = "ReplaceSection" /\ MarkedSinceReset(b, name)) =>
                /\ hist[Len(hist)].out = "ok"
                /\ name \in DOMAIN prev[b].sections
                /\ LET offset == prev[b].sections[name]
                       old == prev[b].buffer
                   IN  builders[b].buffer =
                           SubSeq(old, 1, offset) \o LastCall.t
                           \o SubSeq(old, offset + 1, Len(old))
                /\ builders[b].args = prev[b].args
                /\ builders[b].argPosition = prev[b].argPosition
                /\ builders[b].sections = prev[b].sections
            /\ \A o \in Builders \ {b} :
                LastCall.k \in {"MarkSection", "ReplaceSection"} =>
                    builders[o] = prev[o]

\* A replacement with text at an offset before the end of the text, with an
\* argument bound and another section marked at a later offset.
C12_Witness ==
    /\ hist # <<>>
    /\ LastCall.k = "ReplaceSection"
    /\ LastCall.t # <<>>
    /\ MarkedSinceReset(LastBuilder, LastCall.s)
    /\ prev[LastBuilder].args # <<>>
    /\ LET secs == prev[LastBuilder].sections
       IN  /\ secs[LastCall.s] < Len(prev[LastBuilder].buffer)
           /\ \E n \in DOMAIN secs : secs[n] > secs[LastCall.s]

\* The clause ` RETURNING <quoted column>` in the dialect d.
ReturningClause(d, column) == <<" ", "R", "E", "T", "U", "R", "N", "I", "N", "G", " ">> \o Quote(d, column)

\* C13: Returning(column) on a text that starts with INSERT appends what the
\* dialect's InsertReturning yields: one ` RETURNING <quoted column>` on
\* Postgres, nothing on MySQL; on any other text it appends
\* ` RETURNING <quoted column>` if and only if the dialect's SupportUpsert is
\* true.  The arguments are unchanged in all cases.
C13_ReturningDelegates ==
    (hist # <<>> /\ LastCall.k = "Returning") =>
        LET b == LastBuilder
            d == prev[b].dialect
            old == prev[b].buffer
            column == LastCall.s
        IN  /\ HasPrefix(old, <<"I", "N", "S", "E", "R", "T">>) =>
                /\ builders[b].buffer = old \o InsertReturning(d, old, column)
                /\ d = "postgres" => builders[b].buffer = old \o ReturningClause(d, column)
                /\ d = "mysql" => builders[b].buffer = old
            /\ ~HasPrefix(old, <<"I", "N", "S", "E", "R", "T">>) =>
                /\ SupportUpsert(d) => builders[b].buffer = old \o ReturningClause(d, column)
                /\ ~SupportUpsert(d) => builders[b].buffer = old
            /\ builders[b].args = prev[b].args
            /\ builders[b].argPosition = prev[b].argPosition
            /\ builders[b].sections = prev[b].sections
            /\ hist[Len(hist)].out = "ok"

\* Returning on a MySQL INSERT statement that holds bound values.
C13_Witness ==
    /\ hist # <<>>
    /\ LastCall.k = "Returning"
    /\ prev[LastBuilder].dialect = "mysql"
    /\ HasPrefix(prev[LastBuilder].buffer, <<"I", "N", "S", "E", "R", "T">>)
    /\ prev[LastBuilder].args # <<>>

\* C14 as stated: InsertReturning(statementText, primaryKeyColumn) returns
\* statementText followed by the RETURNING clause on Postgres, and
\* statementText itself on MySQL.
C14_ReturnsStatement ==
    ( /\ hist # <<>>
      /\ LastCall.k = "Returning"
      /\ HasPrefix(prev[LastBuilder].buffer, <<"I", "N", "S", "E", "R", "T">>) ) =>
        LET d == prev[LastBuilder].dialect
            query == prev[LastBuilder].buffer
            result == InsertReturning(d, query, LastCall.s)
        IN  /\ d = "postgres" => result = query \o ReturningClause(d, LastCall.s)
            /\ d = "mysql" => result = query

\* C14: InsertReturning(statementText, primaryKeyColumn) returns the text to
\* put behind the statement, without the statement: ` RETURNING ` and the
\* quoted key column on Postgres, and the empty string on MySQL and SQLite.
C14_ReturnsClause ==
    ( /\ hist # <<>>
      /\ LastCall.k = "Returning"
      /\ HasPrefix(prev[LastBuilder].buffer, <<"I", "N", "S", "E", "R", "T">>) ) =>
        LET d == prev[LastBuilder].dialect
            query == prev[LastBuilder].buffer
            result == InsertReturning(d, query, LastCall.s)
        IN  /\ d = "postgres" => result = ReturningClause(d, LastCall.s)
            /\ d \in {"mysql", "sqlite"} => result = <<>>

\* Returning on a Postgres INSERT statement: InsertReturning is called with
\* a statement text that is not empty.
C14_Witness ==
    /\ hist # <<>>
    /\ LastCall.k = "Returning"
    /\ prev[LastBuilder].dialect = "postgres"
    /\ HasPrefix(prev[LastBuilder].buffer, <<"I", "N", "S", "E", "R", "T", " ", "I", "N", "T", "O", " ">>)
    /\ builders[LastBuilder].buffer # prev[LastBuilder].buffer

\* The limit and the offset the last call hands to the dialect (-1: omitted).
LimitOf(c) == IF c.k = "Offset" THEN 0 - 1 ELSE c.a[1]

OffsetOf(c) == IF c.k = "Limit" THEN 0 - 1 ELSE IF c.k = "Offset" THEN c.a[1] ELSE c.a[2]

\* C15: with -1 for an omitted value, Postgres and SQLite write ` LIMIT n`,
\* ` OFFSET m`, ` LIMIT n OFFSET m` or nothing; MySQL writes ` LIMIT n`,
\* ` LIMIT m, n` (offset first), ` LIMIT m, 18446744073709551615` for an
\* offset alone, or nothing.  LimitOffset(10, 20) is ` LIMIT 20, 10` on MySQL
\* and ` LIMIT 10 OFFSET 20` on Postgres.
C15_LimitOffsetPerDialect ==
    (hist # <<>> /\ LastCall.k \in {"Limit", "Offset", "LimitOffset"}) =>
        LET b == LastBuilder
            d == prev[b].dialect
            n == LimitOf(LastCall)
            m == OffsetOf(LastCall)
            added == SubSeq(builders[b].buffer, Len(prev[b].buffer) + 1,
                            Len(builders[b].buffer))
        IN  /\ Len(builders[b].buffer) >= Len(prev[b].buffer)
            /\ SubSeq(builders[b].buffer, 1, Len(prev[b].buffer)) = prev[b].buffer
            /\ builders[b].args = prev[b].args
            /\ (n = 0 - 1 /\ m = 0 - 1) => added = <<>>
            /\ (n >= 0 /\ m = 0 - 1) => added = <<" ", "L", "I", "M", "I", "T", " ">> \o Itoa(n)
            /\ d \in {"postgres", "sqlite"} =>
                /\ (n = 0 - 1 /\ m >= 0) => added = <<" ", "O", "F", "F", "S", "E", "T", " ">> \o Itoa(m)
                /\ (n >= 0 /\ m >= 0) =>
                       added = <<" ", "L", "I", "M", "I", "T", " ">> \o Itoa(n) \o <<" ", "O", "F", "F", "S", "E", "T", " ">> \o Itoa(m)
                /\ (n = 10 /\ m = 20) => added = <<" ", "L", "I", "M", "I", "T", " ", "1", "0", " ", "O", "F", "F", "S", "E", "T", " ", "2", "0">>
            /\ d = "mysql" =>
                /\ (n = 0 - 1 /\ m >= 0) =>
                       added = <<" ", "L", "I", "M", "I", "T", " ">> \o Itoa(m) \o <<",", " ", "1", "8", "4", "4", "6", "7", "4", "4", "0", "7", "3", "7", "0", "9", "5", "5", "1", "6", "1", "5">>
                /\ (n >= 0 /\ m >= 0) =>
                       added = <<" ", "L", "I", "M", "I", "T", " ">> \o Itoa(m) \o <<",", " ">> \o Itoa(n)
                /\ (n = 10 /\ m = 20) => added = <<" ", "L", "I", "M", "I", "T", " ", "2", "0", ",", " ", "1", "0">>

\* LimitOffset(10, 20) on a MySQL builder that holds a SELECT.
C15_Witness ==
    /\ hist # <<>>
    /\ LastCall.k = "LimitOffset"
    /\ LastCall.a = <<10, 20>>
    /\ prev[LastBuilder].dialect = "mysql"
    /\ prev[LastBuilder].buffer # <<>>

\* The <<column, value>> pairs the call c assigns, in the order it writes them.
PairsOf(c) == IF c.k = "Set" THEN << <<c.s, c.a[1]>> >> ELSE c.a

\* The pairs assigned by the calls from the i-th on.
RECURSIVE PairsFrom(_)
PairsFrom(i) ==
    IF i > Len(hist) THEN <<>> ELSE PairsOf(hist[i].c) \o PairsFrom(i + 1)

\* C16: after Update(table), Set and SetMap calls in any mix, with maps of any
\* size, produce a text in which ` SET ` occurs once and the assignments
\* `<quoted column> = <placeholder>` are separated by one `, ` each, none
\* before the first, and the i-th assignment goes with the i-th argument, the
\* value given for its column.
C16_SetClause ==
    \A j \in 1..(Len(hist) - 1) :
        ( /\ hist[j].c.k = "Update"
          /\ \A i \in (j + 1)..Len(hist) : hist[i].c.k \in {"Set", "SetMap"} ) =>
            LET st == builders[hist[j].b]
                pairs == PairsFrom(j + 1)
                assignments ==
                    [i \in 1..Len(pairs) |->
                        Quote(st.dialect, pairs[i][1]) \o <<" ", "=", " ">>
                        \o Placeholder(st.dialect, i)]
            IN  /\ Occurrences(st.buffer, <<" ", "S", "E", "T", " ">>) = 1
                /\ st.buffer = <<"U", "P", "D", "A", "T", "E", " ">> \o Quote(st.dialect, hist[j].c.s)
                                \o <<" ", "S", "E", "T", " ">> \o Join(assignments, <<",", " ">>)
                /\ st.args = [i \in 1..Len(pairs) |-> pairs[i][2]]

\* C17: no fluent operation fails: in every call order and for every argument
\* (empty and blank columns of OrderBy and IndexColumns, Set before Update),
\* every operation other than ReplaceSection returns the builder, with no
\* error value and no panic.
C17_NoOperationFails ==
    \A i \in 1..Len(hist) :
        hist[i].c.k # "ReplaceSection" => hist[i].out = "ok"

\* The type left when every level of pointer is removed from the type t.
Pointee(t) == t[Len(t)]

\* The call extracted'[k] returns in this step.
ReturnsNow(k) ==
    /\ extracted'[k].done
    /\ k > Len(extracted) \/ ~extracted[k].done

\* C18: a call with a value whose type, all pointers removed, is no struct
\* returns an error and no descriptor and leaves the cache as it is; a call
\* with a pointer of any depth to a struct returns the descriptor that a call
\* with the struct itself returns: on an empty cache the descriptor of the
\* struct, and served from the cache a descriptor of the same designations as
\* the one the call before it returned for another pointer depth.
C18_PointersAndKinds ==
    [][\A k \in 1..Len(extracted') :
          ReturnsNow(k) =>
            LET call == extracted'[k]
                n == Pointee(call.model)
            IN  /\ call.err <=> n \notin StructNames
                /\ call.err =>
                     /\ call.info = <<>>
                     /\ call.fields = <<>>
                     /\ fieldCache' = fieldCache
                     /\ heap' = heap
                /\ (~call.err /\ call.empty) => call.info = Sequential(n).info
                /\ ( /\ ~call.err /\ call.cached /\ k > 1
                     /\ extracted'[k - 1].done /\ ~extracted'[k - 1].err
                     /\ Pointee(extracted'[k - 1].model) = n
                     /\ extracted'[k - 1].model # call.model )
                   => SameDesignations(call.info, extracted'[k - 1].info)
      ]_vars

\* A call with a pointer to a pointer to Plain has returned its descriptor
\* from the cache, right after a call of another pointer depth returned one,
\* and a call with a pointer to int has returned.
C18_Witness ==
    \E k \in 2..Len(extracted), j \in 1..Len(extracted) :
        /\ extracted[k].model = <<"*", "*", "Plain">>
        /\ Returned(k) /\ extracted[k].cached
        /\ Returned(k - 1)
        /\ extracted[k - 1].model # extracted[k].model
        /\ Pointee(extracted[k - 1].model) = "Plain"
        /\ extracted[j].model = <<"*", "int">>
        /\ extracted[j].done /\ extracted[j].err

\* C19: in every descriptor returned, each member's column name is not
\* empty, no two members have the same column name, and the column-to-member
\* map has as many entries as the member-to-column map, also when members
\* carry `column` overrides.
C19_ColumnsUnique ==
    \A k \in 1..Len(extracted) :
        Returned(k) =>
            LET info == extracted[k].info
                names == DOMAIN info.Fields
            IN  /\ \A name \in names : info.Fields[name].DBName # <<>>
                /\ \A a, b \in names :
                       a # b => info.Fields[a].DBName # info.Fields[b].DBName
                /\ Cardinality(DOMAIN info.FieldsByDBName) = Cardinality(names)

\* C20: in every descriptor returned, from the cache or not, every name of
\* the primary-key list is a key of the member map whose descriptor has the
\* primary-key flag, no name is in the list twice, and the auto-increment
\* member name is empty or a key of the member map whose descriptor has the
\* auto-increment flag.
C20_KeysAreMembers ==
    \A k \in 1..Len(extracted) :
        Returned(k) =>
            LET info == extracted[k].info
                pk == info.PrimaryKey
            IN  /\ \A i \in 1..Len(pk) :
                       /\ pk[i] \in DOMAIN info.Fields
                       /\ info.Fields[pk[i]].IsPrimaryKey
                /\ \A i, j \in 1..Len(pk) : i # j => pk[i] # pk[j]
                /\ info.AutoIncrement # <<>> =>
                       /\ info.AutoIncrement \in DOMAIN info.Fields
                       /\ info.Fields[info.AutoIncrement].IsAutoIncrement

(***************************************************************************)
(* Claims about reading, writing and validating the members of a Record    *)
(*                                                                         *)
(* applied[k] is the outcome of the function that made call k of           *)
(* ExtractModelInfo, extracted[k].                                         *)
(***************************************************************************)

\* The descriptor of Record that function k worked with.
RecordInfo(k) == extracted[k].info

\* The members of Record that onlyFields lists; all of them when it is empty.
Listed(k, onlyFields) ==
    {name \in DOMAIN RecordInfo(k).Fields :
        Len(onlyFields) > 0 => \E j \in 1..Len(onlyFields) : onlyFields[j] = name}

\* The map that function k returned has exactly the columns of the members
\* in `members`, each with the value a member of that column held when the
\* call was made.
HoldsValuesOf(k, members) ==
    /\ DOMAIN applied[k].result = {RecordInfo(k).Fields[name].DBName : name \in members}
    /\ \A col \in DOMAIN applied[k].result :
           \E name \in members :
               /\ RecordInfo(k).Fields[name].DBName = col
               /\ applied[k].result[col] = applied[k].before[name]

\* C21 as stated: GetFieldValues returns an entry column -> current value
\* for exactly the members that are not ignored, not write-only and listed
\* in onlyFields when it is not empty; read-only members are included.
C21_SkipsWriteOnly ==
    \A k \in 1..Len(applied) :
        applied[k].op = "GetFieldValues" =>
            /\ applied[k].err = ""
            /\ HoldsValuesOf(k, {name \in Listed(k, applied[k].onlyFields) :
                                    /\ ~RecordInfo(k).Fields[name].IsIgnored
                                    /\ ~RecordInfo(k).Fields[name].IsWriteOnly})

\* C21: GetFieldValues returns an entry column -> current value for exactly
\* the members that are not ignored, not read-only and, when onlyFields is
\* not empty, listed in onlyFields by member name; write-only members are
\* included, read-only members are not.
C21_SkipsReadOnly ==
    \A k \in 1..Len(applied) :
        applied[k].op = "GetFieldValues" =>
            /\ applied[k].err = ""
            /\ HoldsValuesOf(k, {name \in Listed(k, applied[k].onlyFields) :
                                    /\ ~RecordInfo(k).Fields[name].IsIgnored
                                    /\ ~RecordInfo(k).Fields[name].IsReadOnly})

\* GetFieldValues was called with an include list that names a write-only, a
\* read-only and an ignored member, and returned the write-only one alone.
C21_Witness ==
    \E k \in 1..Len(applied) :
        LET a == applied[k]
        IN  /\ a.op = "GetFieldValues"
            /\ a.onlyFields = <<<<"S", "e", "c", "r", "e", "t">>, <<"T", "o", "t", "a", "l">>, <<"T", "e", "m", "p">>>>
            /\ a.before[<<"S", "e", "c", "r", "e", "t">>] = Val("string", <<"s">>)
            /\ DOMAIN a.result = {<<"s", "e", "c", "r", "e", "t">>}
            /\ a.result[<<"s", "e", "c", "r", "e", "t">>] = Val("string", <<"s">>)

\* The Record as function k left it.
After(k) == IF k < Len(applied) THEN applied[k + 1].before ELSE record

\* The member of Record stored in column col can be written by
\* SetFieldValues: it exists and is neither ignored nor write-only.
Writable(k, col) ==
    /\ col \in DOMAIN RecordInfo(k).FieldsByDBName
    /\ ~RecordInfo(k).FieldsByDBName[col].IsIgnored
    /\ ~RecordInfo(k).FieldsByDBName[col].IsWriteOnly

\* The type of the value given for column col can be neither assigned nor
\* converted to the type of the member stored in that column.
Incompatible(k, col) ==
    LET kind == applied[k].before[RecordInfo(k).FieldsByDBName[col].Name].kind
        given == applied[k].values[col].kind
    IN  ~AssignableTo(given, kind) /\ ~ConvertibleTo(given, kind)

\* C22: SetFieldValues on a pointer to a Record, with a map whose columns
\* are all absent from the descriptor, returns no error and leaves every
\* member of the Record as it was.
C22_UnknownColumnsSkipped ==
    \A k \in 1..Len(applied) :
        LET a == applied[k]
        IN  ( /\ a.op = "SetFieldValues"
              /\ Kind(a.model) = "ptr"
              /\ \A col \in DOMAIN a.values : col \notin DOMAIN RecordInfo(k).FieldsByDBName )
            => a.err = "" /\ After(k) = a.before

\* C23: SetFieldValues on a pointer to a Record, with a value for a known
\* column that is neither ignored nor write-only whose type can be neither
\* assigned nor converted to the member's type, fails with the
\* incompatible-type error naming such a member.
C23_IncompatibleTypeFails ==
    \A k \in 1..Len(applied) :
        LET a == applied[k]
            bad == {col \in DOMAIN a.values : Writable(k, col) /\ Incompatible(k, col)}
        IN  ( /\ a.op = "SetFieldValues"
              /\ Kind(a.model) = "ptr"
              /\ bad # {} )
            => /\ a.err = "incompatible"
               /\ \E col \in bad : a.field = RecordInfo(k).FieldsByDBName[col].Name

\* C24: SetFieldValues fails with the not-addressable error exactly when the
\* Record is passed by value; for a pointer to a Record it stores every
\* assignable value of a known column that is neither ignored nor write-only
\* into the member of that column.
C24_NotAddressableOnlyByValue ==
    \A k \in 1..Len(applied) :
        LET a == applied[k]
        IN  a.op = "SetFieldValues" =>
                /\ a.err = "addressable" <=> Kind(a.model) # "ptr"
                /\ ( /\ Kind(a.model) = "ptr"
                     /\ \A col \in DOMAIN a.values :
                            Writable(k, col) => ~Incompatible(k, col) )
                   => \A col \in DOMAIN a.values :
                          LET name == RecordInfo(k).FieldsByDBName[col].Name
                          IN  ( /\ Writable(k, col)
                                /\ AssignableTo(a.values[col].kind, a.before[name].kind) )
                              => After(k)[name] = a.values[col]

\* The members that are not_null, not ignored and held the zero value of
\* their type when function k was called.
NullMembers(k) ==
    {name \in DOMAIN RecordInfo(k).Fields :
        /\ RecordInfo(k).Fields[name].IsNotNull
        /\ ~RecordInfo(k).Fields[name].IsIgnored
        /\ IsZero(applied[k].before[name])}

\* C25: ValidateStruct fails with the null-constraint error if and only if a
\* not-null member holds the zero value of its type, and the error names the
\* first such member in declaration order, the same one whenever the same
\* Record is validated; otherwise it succeeds.
C25_NamesFirstNullMember ==
    \A k \in 1..Len(applied) :
        LET a == applied[k]
            null == NullMembers(k)
        IN  a.op = "ValidateStruct" =>
                IF null = {}
                THEN a.err = "" /\ a.field = <<>>
                ELSE /\ a.err = "null"
                     /\ a.field \in null
                     /\ \A name \in null :
                            RecordInfo(k).Fields[a.field].Index[1]
                                <= RecordInfo(k).Fields[name].Index[1]

(***************************************************************************)
(* Claims about the lifetime of cache entries                              *)
(***************************************************************************)

\* The step begins call number Len(extracted) + 1.
BeginsNow == Len(extracted') = Len(extracted) + 1

\* The step is one of a thread that is in no call and begins none: a
\* ClearCache.
ClearsNow == stack[1] = <<>> /\ ~BeginsNow

\* The call of ExtractModelInfo that is running.
Running == CHOOSE k \in 1..Len(extracted) : ~extracted[k].done

\* C26: when a call returns a descriptor, its type is in the cache; no step
\* but ClearCache removes an entry, so a later call of the type with no
\* ClearCache in between finds it; a call that finds its type in the cache
\* writes neither the cache nor a FieldInfo the cache holds and returns
\* FieldInfos of its own; ClearCache, called with no call running, leaves the
\* cache without entries; and the next call, of any struct type, does not
\* find its type, computes the descriptor again and leaves the type in the
\* cache.
C26_CacheVisibleUntilCleared ==
    [][ /\ \A k \in 1..Len(extracted') :
               (ReturnsNow(k) /\ ~extracted'[k].err) =>
                   /\ extracted'[k].type \in DOMAIN fieldCache'
                   /\ extracted'[k].empty =>
                          /\ ~extracted'[k].cached
                          /\ extracted'[k].info =
                                 ExtractModelInfo(NoHeap, NoCache, 1, extracted'[k].model).info[1]
                   /\ extracted'[k].cached =>
                          Range(extracted'[k].fields) \cap CacheOwned(fieldCache') = {}
        /\ ~ClearsNow => DOMAIN fieldCache \subseteq DOMAIN fieldCache'
        /\ (stack[1] # <<>> /\ extracted[Running].cached) =>
               /\ fieldCache' = fieldCache
               /\ \A a \in CacheOwned(fieldCache) : heap'[a] = heap[a]
        /\ ClearsNow => fieldCache' = NoCache
        /\ BeginsNow =>
               LET c == extracted'[Len(extracted')]
               IN  /\ c.cached <=> c.type \in DOMAIN fieldCache
                   /\ c.empty <=> fieldCache = NoCache ]_vars

\* A type was extracted, the cache was cleared and the type was extracted
\* again: the second call began on an empty cache and left the type in it.
C26_Witness ==
    /\ Len(extracted) = 2
    /\ Returned(1) /\ Returned(2)
    /\ extracted[2].type = extracted[1].type
    /\ extracted[2].empty /\ ~extracted[2].cached
    /\ extracted[2].type \in DOMAIN fieldCache

(***************************************************************************)
(* Claims about the naming functions                                       *)
(***************************************************************************)

\* An underscore belongs before character i of x: an upper-case letter right
\* after a lower-case letter, or the last upper-case letter of a run of two
\* or more that a lower-case letter follows.
UnderscoreBefore(x, i) ==
    /\ IsUpper(x[i])
    /\ i > 1
    /\ \/ IsLower(x[i - 1])
       \/ IsUpper(x[i - 1]) /\ i < Len(x) /\ IsLower(x[i + 1])

\* x in lower case with the underscores of UnderscoreBefore and no others.
SnakeOf(x) ==
    Flatten([i \in 1..Len(x) |->
                IF UnderscoreBefore(x, i) THEN <<"_", ToLowerRune(x[i])>>
                ELSE <<ToLowerRune(x[i])>>])

\* C27: for an identifier of ASCII letters, digits and underscores,
\* ToSnakeCase returns the identifier in lower case with an underscore before
\* every upper-case letter that follows a lower-case letter and before the
\* last upper-case letter of every run of two or more upper-case letters that
\* a lower-case letter follows, a run at the start included, and with no
\* other underscore added.
C27_SnakeCase ==
    "ToSnakeCase" \in DOMAIN outputs => outputs["ToSnakeCase"] = SnakeOf(input)

\* The letters and digits of s, in order and in lower case.
LettersAndDigits(s) ==
    LET kept == SelectSeq(s, LAMBDA c : c # "_")
    IN  [i \in 1..Len(kept) |-> ToLowerRune(kept[i])]

\* C28: ToCamelCase and ToPascalCase of what ToSnakeCase returns for an
\* identifier of ASCII letters, digits and underscores hold no underscore and
\* the letters and digits of the identifier, in order, case aside.
C28_RoundTrip ==
    \A f \in {"ToCamelCase", "ToPascalCase"} :
        f \in DOMAIN outputs =>
            /\ \A i \in 1..Len(outputs[f]) : outputs[f][i] # "_"
            /\ LettersAndDigits(outputs[f]) = LettersAndDigits(input)

\* HTTPServer went to http_server and from there to httpServer and
\* HttpServer.
C28_Witness ==
    /\ input = <<"H", "T", "T", "P", "S", "e", "r", "v", "e", "r">>
    /\ DOMAIN outputs = {"ToSnakeCase", "ToCamelCase", "ToPascalCase"}
    /\ outputs["ToSnakeCase"] = <<"h", "t", "t", "p", "_", "s", "e", "r", "v", "e", "r">>
    /\ outputs["ToCamelCase"] = <<"h", "t", "t", "p", "S", "e", "r", "v", "e", "r">>
    /\ outputs["ToPascalCase"] = <<"H", "t", "t", "p", "S", "e", "r", "v", "e", "r">>

(***************************************************************************)
(* Claims about the tag functions                                          *)
(***************************************************************************)

\* The segments of a tag are what stands between one `;` (or the start) and
\* the next `;` (or the end).  The places where a segment begins: the start
\* and every `;`.
Cuts(tag) == {0} \cup {i \in 1..Len(tag) : tag[i] = ";"}

\* The segment that begins after position p.
SegmentAt(tag, p) ==
    LET later == {i \in (p + 1)..Len(tag) : tag[i] = ";"}
    IN  SubSeq(tag, p + 1, IF later = {} THEN Len(tag) ELSE Min(later) - 1)

\* s without the spaces at its ends.
RECURSIVE Trimmed(_)
Trimmed(s) ==
    IF s = <<>> THEN s
    ELSE IF Head(s) = " " THEN Trimmed(Tail(s))
    ELSE IF s[Len(s)] = " " THEN Trimmed(SubSeq(s, 1, Len(s) - 1))
    ELSE s

\* The trimmed text of a segment before its first `:`, all of it if it has
\* none, and the trimmed text after that `:`.
SegmentKey(seg) ==
    LET colons == {i \in 1..Len(seg) : seg[i] = ":"}
    IN  Trimmed(IF colons = {} THEN seg ELSE SubSeq(seg, 1, Min(colons) - 1))

SegmentValue(seg) ==
    LET colons == {i \in 1..Len(seg) : seg[i] = ":"}
    IN  IF colons = {} THEN <<>> ELSE Trimmed(SubSeq(seg, Min(colons) + 1, Len(seg)))

\* C29: ParseTagSettings returns a map that has key k with value v exactly
\* when the last segment with the non-empty key k has the value v, empty for
\* a segment without `:`; HasTagOption is true exactly when some segment,
\* trimmed, is the option.  Both return for every tag.
C29_TagGrammar ==
    /\ "ParseTagSettings" \in DOMAIN outputs =>
           LET settings == outputs["ParseTagSettings"]
               keyed(k) == {p \in Cuts(input) : SegmentKey(SegmentAt(input, p)) = k}
           IN  /\ DOMAIN settings =
                      {SegmentKey(SegmentAt(input, p)) : p \in Cuts(input)} \ {<<>>}
               /\ \A k \in DOMAIN settings :
                      settings[k] = SegmentValue(SegmentAt(input, Max(keyed(k))))
    /\ "HasTagOption" \in DOMAIN outputs =>
           LET asked == outputs["HasTagOption"]
           IN  asked.found <=>
                   \E p \in Cuts(input) : Trimmed(SegmentAt(input, p)) = asked.option

\* A tag of padded segments, one key given twice, a segment without a key and
\* an empty one was parsed: the later value of the key is in the map.
C29_Witness ==
    /\ input = <<" ", "a", " ", ":", " ", "b", " ", ";", "a", ":", "c", ";", " ", ";", ":", "d", ";", "b">>
    /\ "ParseTagSettings" \in DOMAIN outputs
    /\ DOMAIN outputs["ParseTagSettings"] = {<<"a">>, <<"b">>}
    /\ outputs["ParseTagSettings"][<<"a">>] = <<"c">>
    /\ outputs["ParseTagSettings"][<<"b">>] = <<>>
    /\ "HasTagOption" \in DOMAIN outputs
    /\ outputs["HasTagOption"] = [option |-> <<"b">>, found |-> TRUE]

(***************************************************************************)
(* Claims about EscapeLike                                                 *)
(***************************************************************************)

Escaped == {"\\", "%", "_"}

\* x with one backslash before each of its backslashes, `%` and `_`.
EscapedOf(x) ==
    Flatten([i \in 1..Len(x) |-> IF x[i] \in Escaped THEN <<"\\", x[i]>> ELSE <<x[i]>>])

\* s read from the left, with every backslash that has a character after it
\* removed and that character kept.
RECURSIVE Unescape(_)
Unescape(s) ==
    IF s = <<>> THEN s
    ELSE IF Head(s) = "\\" /\ Len(s) > 1 THEN <<s[2]>> \o Unescape(SubSeq(s, 3, Len(s)))
    ELSE <<Head(s)>> \o Unescape(Tail(s))

\* C30: EscapeLike of each dialect returns the value with one backslash
\* before each backslash, `%` and `_` of the value and nothing else changed,
\* and removing the backslash before each escaped character gives the value
\* back.
C30_EscapeLike ==
    \A d \in DOMAIN outputs :
        /\ outputs[d] = EscapedOf(input)
        /\ Unescape(outputs[d]) = input

\* A value with a backslash, a `%` and a `_` was escaped for every dialect.
C30_Witness ==
    /\ input = <<"\\", "%", "_">>
    /\ DOMAIN outputs = Dialects
    /\ \A d \in Dialects : outputs[d] = <<"\\", "\\", "\\", "%", "\\", "_">>

(***************************************************************************)
(* Claims about placeholder numbering across spliced builders              *)
(***************************************************************************)

\* The numbers of the placeholders `$n` of s, from left to right.
RECURSIVE PlaceholderNumbers(_)
PlaceholderNumbers(s) ==
    IF s = <<>> THEN <<>>
    ELSE IF s[1] = "$"
         THEN LET rest == Tail(s)
                  n == Cardinality({k \in 1..Len(rest) : \A j \in 1..k : IsDigit(rest[j])})
              IN  <<Atoi(SubSeq(rest, 1, n))>>
                  \o PlaceholderNumbers(SubSeq(rest, n + 1, Len(rest)))
         ELSE PlaceholderNumbers(Tail(s))

\* No call so far spliced a builder into itself.
SubBuildersOnly ==
    \A i \in 1..Len(hist) :
        hist[i].c.k \in {"Subquery", "Exists", "NotExists"} => hist[i].c.o # hist[i].b

\* C31: on the Postgres dialect, after Values, Subquery, Exists and NotExists
\* calls with sub-builders that carry placeholders and arguments of their own,
\* the placeholders of the outer text are $1, $2, ..., $n from left to right,
\* n being the number of arguments.
C31_PlaceholdersNumbered ==
    SubBuildersOnly =>
        \A b \in Builders :
            builders[b].dialect = "postgres" =>
                PlaceholderNumbers(builders[b].buffer) =
                    [i \in 1..Len(builders[b].args) |-> i]

(***************************************************************************)
(* Claims about index paths and the order of extractions                   *)
(***************************************************************************)

\* The member that the positional path index leads to from the struct n, in
\* a sequence of length one; <<>> when the path leads to none.
RECURSIVE MemberAt(_, _)
MemberAt(n, index) ==
    IF index = <<>> \/ index[1] >= NumField(n) THEN <<>>
    ELSE LET sf == Field(n, index[1])
         IN  IF Len(index) = 1 THEN <<sf>>
             ELSE IF Kind(IndirectType(sf.Type)) = "struct"
             THEN MemberAt(Head(IndirectType(sf.Type)), Tail(index))
             ELSE <<>>

\* C32: whatever types were extracted before, the descriptor of a type has
\* the same field set as any other descriptor of that type, and the path of
\* each of its fields leads from the extracted type to the member of the
\* field's name.
C32_PathsFromExtractedType ==
    \A k \in 1..Len(extracted) :
        Returned(k) =>
            /\ \A j \in 1..Len(extracted) :
                   (Returned(j) /\ extracted[j].type = extracted[k].type) =>
                       DOMAIN extracted[j].info.Fields = DOMAIN extracted[k].info.Fields
            /\ \A name \in DOMAIN extracted[k].info.Fields :
                   LET member == MemberAt(extracted[k].type, extracted[k].info.Fields[name].Index)
                   IN  member # <<>> /\ member[1].Name = name

(***************************************************************************)
(* Claims about the locking of cached descriptors                          *)
(***************************************************************************)

\* The frame thread t is running.
Top(t) == stack[t][Len(stack[t])]

\* The next step of thread t writes the Index of the FieldInfo at address a
\* (line 295), holding no lock.
WritesNext(t, a) ==
    /\ stack[t] # <<>>
    /\ Top(t).pc = "merge"
    /\ Top(t).pending # <<>>
    /\ Head(Top(t).pending) = a
    /\ heap[a].Name \notin DOMAIN Top(t).fieldMap

\* The next step of thread t reads the FieldInfo at address a, which it found
\* in the cache (line 241), the read lock released.
ReadsNext(t, a) ==
    /\ stack[t] # <<>>
    /\ Top(t).pc = "copy"
    /\ Top(t).pending # <<>>
    /\ Head(Top(t).pending) = a

\* C33: a FieldInfo the cache holds is never about to be written by one
\* thread, outside the write lock, while another thread is about to read it.
C33_CachedWritesUnderLock ==
    \A a \in CacheOwned(fieldCache) :
        \A writer, reader \in Threads :
            ~(writer # reader /\ WritesNext(writer, a) /\ ReadsNext(reader, a))

(***************************************************************************)
(* Claims about index groups, name collisions and references               *)
(***************************************************************************)

\* The descriptor that the call extracted[k] returned is one of Indexed.
OfIndexed(k) == Returned(k) /\ extracted[k].type = "Indexed"

\* C34: in the descriptor of Indexed the member with a bare `index` is in the
\* group idx_indexed_code and the member with a bare `unique` in the unique
\* group udx_indexed_email; the two members with `index:by_place` are in the
\* group by_place, which holds both columns, and the member with
\* `uniqueIndex:by_zip` is in the unique group by_zip.
C34_IndexGroups ==
    \A k \in 1..Len(extracted) :
        OfIndexed(k) =>
            LET info == extracted[k].info
                In(groups, name, col) == name \in DOMAIN groups /\ col \in Range(groups[name])
            IN  /\ In(info.Indexes, <<"i", "d", "x", "_", "i", "n", "d", "e", "x", "e", "d", "_", "c", "o", "d", "e">>, <<"c", "o", "d", "e">>)
                /\ In(info.UniqueIndexes, <<"u", "d", "x", "_", "i", "n", "d", "e", "x", "e", "d", "_", "e", "m", "a", "i", "l">>, <<"e", "m", "a", "i", "l">>)
                /\ In(info.Indexes, <<"b", "y", "_", "p", "l", "a", "c", "e">>, <<"c", "i", "t", "y">>)
                /\ In(info.Indexes, <<"b", "y", "_", "p", "l", "a", "c", "e">>, <<"z", "i", "p">>)
                /\ In(info.UniqueIndexes, <<"b", "y", "_", "z", "i", "p">>, <<"z", "i", "p">>)

\* C35: the fields extracted for Both, which embeds Left and then Right, both
\* declaring X, hold exactly one descriptor named X, and it is the one of
\* Left, the embedded type declared first: its column and tag are those of
\* Left.X; so it is in the descriptor built of them, where no column of
\* Right.X exists.
C35_FirstEmbeddedWins ==
    \A k \in 1..Len(extracted) :
        (Returned(k) /\ extracted[k].type = "Both") =>
            LET fields == Deref(heap, extracted[k].fields)
                named == {j \in 1..Len(fields) : fields[j].Name = <<"X">>}
                first == Field("Left", 0)
            IN  /\ Cardinality(named) = 1
                /\ \A j \in named :
                       /\ fields[j].RawTag = first.Tag
                       /\ fields[j].DBName = <<"l", "x">>
                /\ extracted[k].info.Fields[<<"X">>].DBName = <<"l", "x">>
                /\ <<"r", "x">> \notin DOMAIN extracted[k].info.FieldsByDBName
                /\ <<"y">> \in DOMAIN extracted[k].info.FieldsByDBName

\* Both was extracted on an empty cache and then again, from the cache.
C35_Witness ==
    /\ Len(extracted) = 2
    /\ Returned(1) /\ Returned(2)
    /\ extracted[1].type = "Both" /\ extracted[1].empty
    /\ extracted[2].type = "Both" /\ extracted[2].cached

\* C39: every call of ExtractModelInfo on Referrer returns a descriptor and
\* no error; in it Owner, whose setting is `User.ID`, has the reference to
\* the entity User and the field ID with the onDelete and onUpdate actions of
\* its tag, and Bad and Deep, whose settings have one part and three parts,
\* have no reference, whatever onDelete or onUpdate their tags hold.
C39_References ==
    \A k \in 1..Len(extracted) :
        (extracted[k].done /\ extracted[k].type = "Referrer") =>
            /\ ~extracted[k].err
            /\ LET fields == extracted[k].info.Fields
               IN  /\ DOMAIN fields = {<<"O", "w", "n", "e", "r">>, <<"B", "a", "d">>, <<"D", "e", "e", "p">>}
                   /\ fields[<<"O", "w", "n", "e", "r">>].Referenced =
                          << [Model |-> <<"U", "s", "e", "r">>, Field |-> <<"I", "D">>,
                              OnDelete |-> <<"C", "A", "S", "C", "A", "D", "E">>, OnUpdate |-> <<"R", "E", "S", "T", "R", "I", "C", "T">>] >>
                   /\ fields[<<"B", "a", "d">>].Referenced = <<>>
                   /\ <<"o", "n", "D", "e", "l", "e", "t", "e">> \in DOMAIN fields[<<"B", "a", "d">>].TagSettings
                   /\ fields[<<"D", "e", "e", "p">>].Referenced = <<>>
                   /\ <<"o", "n", "U", "p", "d", "a", "t", "e">> \in DOMAIN fields[<<"D", "e", "e", "p">>].TagSettings

\* Referrer was extracted on an empty cache and then again, from the cache.
C39_Witness ==
    /\ Len(extracted) = 2
    /\ Returned(1) /\ Returned(2)
    /\ extracted[1].type = "Referrer" /\ extracted[1].empty
    /\ extracted[2].type = "Referrer" /\ extracted[2].cached

(***************************************************************************)
(* Claims about the order of keys and index columns                        *)
(***************************************************************************)

\* The struct n embeds no struct, so the order its members are declared in
\* is the order of its fields.
Flat(n) ==
    \A i \in 0..(NumField(n) - 1) :
        ~(Field(n, i).Anonymous /\ Kind(IndirectType(Field(n, i).Type)) = "struct")

\* The names of the exported members of n that are primary keys, in the
\* order of their declaration.
DeclaredKeys(n) ==
    LET members == SelectSeq(StructDecl(n).Fields,
                             LAMBDA sf : sf.PkgPath = <<>> /\ DirectField(sf).IsPrimaryKey)
    IN  [i \in 1..Len(members) |-> members[i].Name]

\* C36: the primary-key list of a descriptor is in member declaration order,
\* and two descriptors of one type, extracted cold or from the cache, have
\* the same primary-key list and the same column lists in their index and
\* unique-index groups.
C36_DeclarationOrder ==
    \A k \in 1..Len(extracted) :
        Returned(k) =>
            /\ Flat(extracted[k].type) =>
                   extracted[k].info.PrimaryKey = DeclaredKeys(extracted[k].type)
            /\ \A j \in 1..Len(extracted) :
                   (Returned(j) /\ extracted[j].type = extracted[k].type) =>
                       /\ extracted[j].info.PrimaryKey = extracted[k].info.PrimaryKey
                       /\ extracted[j].info.Indexes = extracted[k].info.Indexes
                       /\ extracted[j].info.UniqueIndexes = extracted[k].info.UniqueIndexes

(***************************************************************************)
(* Claims about chained pagination calls                                   *)
(***************************************************************************)

\* The builders after the first i calls of hist, every call made on new
\* builders of the dialect in use and run to its return.
RECURSIVE BuildersAfter(_)
BuildersAfter(i) ==
    IF i = 0 THEN [b \in Builders |-> NewBuilder(builders[b].dialect)]
    ELSE Run(BuildersAfter(i - 1), hist[i].b, <<hist[i].c>>)

\* C37: after Limit(n) and then Offset(m) on a builder, n >= 0 and m >= 0,
\* the text is the one the single call LimitOffset(n, m) gives in place of
\* the two, on every dialect.
C37_LimitThenOffset ==
    LET i == Len(hist)
    IN  ( /\ i >= 2
          /\ hist[i - 1].c.k = "Limit" /\ hist[i].c.k = "Offset"
          /\ hist[i - 1].b = hist[i].b
          /\ hist[i - 1].c.a[1] >= 0 /\ hist[i].c.a[1] >= 0 ) =>
            LET b == hist[i].b
                single == KSA("LimitOffset", <<>>, <<hist[i - 1].c.a[1], hist[i].c.a[1]>>)
            IN  builders[b].buffer = Run(BuildersAfter(i - 2), b, <<single>>)[b].buffer

(***************************************************************************)
(* Claims about section offsets                                            *)
(***************************************************************************)

\* C38: in every state each stored section offset of a builder is between 0
\* and the length of its text; so a ReplaceSection on a marked name found an
\* offset within the text it cut and returned no error, whatever calls were
\* made between the MarkSection and it.
C38_OffsetsInRange ==
    /\ \A b \in Builders :
           \A name \in DOMAIN builders[b].sections :
               /\ 0 <= builders[b].sections[name]
               /\ builders[b].sections[name] <= Len(builders[b].buffer)
    /\ ( /\ hist # <<>>
         /\ LastCall.k = "ReplaceSection"
         /\ LastCall.s \in DOMAIN prev[LastBuilder].sections ) =>
           /\ prev[LastBuilder].sections[LastCall.s] <= Len(prev[LastBuilder].buffer)
           /\ hist[Len(hist)].out = "ok"

\* A statement was started, a section marked behind its text, more text
\* appended, and the section replaced.
C38_Witness ==
    /\ Len(hist) = 4
    /\ hist[1].c.k = "Insert"
    /\ hist[2].c.k = "MarkSection"
    /\ hist[3].c.k = "Append"
    /\ LastCall.k = "ReplaceSection"
    /\ LastCall.s = hist[2].c.s
    /\ LastCall.t # <<>>
    /\ prev[LastBuilder].sections[LastCall.s] > 0
    /\ prev[LastBuilder].sections[LastCall.s] < Len(prev[LastBuilder].buffer)

====
